---------------------------- MODULE Spec2Model ----------------------------
(***************************************************************************)
(* Model of pappl/printer-webif.c, the printer pages of the web interface. *)
(*                                                                         *)
(*   SpecReasons   _papplPrinterIteratorWebCallback: the status line       *)
(*   SpecLocalize  localize_keyword                                        *)
(*   SpecChooser   media_chooser: size select and custom size inputs       *)
(*   SpecDecode    _papplPrinterWebDefaults and _papplPrinterWebMedia      *)
(*                 handling one request                                    *)
(*   SpecSession   the two handlers handling one request after the other   *)
(*   SpecPages     the configuration, defaults, media and cancel pages     *)
(*                 handling one request                                    *)
(*                                                                         *)
(* Each specification starts with the arguments of the call (pc = "call")  *)
(* and takes the call as one step (pc = "done"); in SpecSession the next   *)
(* request then arrives (pc = "call" again).                               *)
(***************************************************************************)
EXTENDS Integers, Sequences, FiniteSets, TLC

VARIABLES
    pc,               \* "call" before the modelled call, "done" after it
    printer_reasons,  \* papplPrinterGetReasons(printer)
    printer_state,    \* papplPrinterGetState(printer)
    printer_jobs,     \* papplPrinterGetActiveJobs(printer)
    driver_data,      \* printer->driver_data
    client,           \* the request: authorization, operation, form variables
    html,             \* what the call wrote to the client
    call,             \* the arguments of a call of a static function
    ret,              \* what that call returned
    printer_config,   \* what the configuration page set for the printer and the system
    jobs              \* the printer's jobs and the cancellations asked of them

vars == <<pc, printer_reasons, printer_state, printer_jobs, driver_data,
          client, html, call, ret, printer_config, jobs>>

\* the variables a specification does not use
None == "none"
NoStatus == printer_reasons = 0 /\ printer_state = 3 /\ printer_jobs = 0
NoPrinter == driver_data = None /\ client = None
NoCall == call = None /\ ret = None
NoQueue == printer_config = None /\ jobs = None
statusVars == <<printer_reasons, printer_state, printer_jobs>>
printerVars == <<driver_data, client>>
callVars == <<call, ret>>
queueVars == <<printer_config, jobs>>

(***************************************************************************)
(* Bounds of the model.                                                    *)
(***************************************************************************)
MaxJobs == 2          \* active jobs of the status line
MaxKeywordLen == 3    \* length of the generated keywords of SpecLocalize
MaxMedia == 3         \* entries of driver_data.media in SpecChooser
MaxSessionKeys == 2   \* form variables of a request of SpecSession
MaxFormKeys == 3      \* form variables of a request

(***************************************************************************)
(* Arithmetic helpers.                                                     *)
(***************************************************************************)
RECURSIVE Pow2(_)
Pow2(n) == IF n = 0 THEN 1 ELSE 2 * Pow2(n - 1)

\* C's '&' of a mask with a single-bit flag (flag is a power of two)
BitAnd(mask, flag) == IF (mask \div flag) % 2 = 1 THEN flag ELSE 0

(***************************************************************************)
(* _papplPrinterIteratorWebCallback                                        *)
(***************************************************************************)
IPP_PSTATE_IDLE == 3
PAPPL_PREASON_OTHER == 1
PAPPL_PREASON_TONER_LOW == 8192

states == <<"Idle", "Printing", "Stopped">>

reasons ==
    << "Other", "Cover Open", "Tray Missing", "Out of Ink", "Low Ink",
       "Waste Tank Almost Full", "Waste Tank Full", "Media Empty",
       "Media Jam", "Media Low", "Media Needed", "Too Many Jobs",
       "Out of Toner", "Low Toner" >>

\* the loop header of line 83: its bound and its two increments
\* the loop bound written with '<': the last flag is never tested
ReasonLoopContinuesMutant(reason) == reason < PAPPL_PREASON_TONER_LOW
ReasonLoopContinues(reason) == reason <= PAPPL_PREASON_TONER_LOW
ReasonLoopNext(i, reason) == <<i + 1, reason * 2>>

\* for (i = 0, reason = OTHER; reason <= TONER_LOW; i ++, reason *= 2)
\*   if (printer_reasons & reason) printf(", %s", reasons[i]);
\* (the C array is 0-based, the sequence 1-based)
RECURSIVE ReasonLoop(_, _, _, _)
ReasonLoop(i, reason, mask, out) ==
    IF ~ReasonLoopContinues(reason) THEN out
    ELSE LET nxt == ReasonLoopNext(i, reason)
         IN  ReasonLoop(nxt[1], nxt[2], mask,
                        IF BitAnd(mask, reason) # 0
                          THEN Append(out, reasons[i + 1])
                          ELSE out)

IteratorWebCallback ==
    /\ pc = "call"
    /\ html' = [ state   |-> states[printer_state - IPP_PSTATE_IDLE + 1],
                 jobs    |-> printer_jobs,
                 unit    |-> IF printer_jobs = 1 THEN "job" ELSE "jobs",
                 reasons |-> ReasonLoop(0, PAPPL_PREASON_OTHER,
                                        printer_reasons, << >>) ]
    /\ pc' = "done"
    /\ UNCHANGED <<statusVars, printerVars, callVars, queueVars>>

InitReasons ==
    /\ pc = "call"
    /\ printer_reasons \in 0 .. (2 * PAPPL_PREASON_TONER_LOW - 1)
    /\ printer_state \in IPP_PSTATE_IDLE .. IPP_PSTATE_IDLE + 2
    /\ printer_jobs \in 0 .. MaxJobs
    /\ html = None
    /\ NoPrinter /\ NoCall /\ NoQueue

NextReasons == IteratorWebCallback

SpecReasons == InitReasons /\ [][NextReasons]_vars


(***************************************************************************)
(* C strings.  A string is a TLA+ string; character k (0-based, as in C)   *)
(* is a one-character string, and the terminating NUL is the empty string. *)
(* The buffers of the file (text[256], size[128], ...) are longer than any *)
(* keyword of the model, so strlcpy/snprintf never truncate here.          *)
(***************************************************************************)
NUL == ""

CharAt(s, k) == IF k < Len(s) THEN SubSeq(s, k + 1, k + 1) ELSE NUL

\* keyword + k, for k <= strlen(keyword)
StrFrom(s, k) == SubSeq(s, k + 1, Len(s))

\* !strncmp(s, lit, n) with n = strlen(lit)
StrNCmpEq(s, lit, n) == Len(s) >= n /\ SubSeq(s, 1, n) = lit

LowerCase == "abcdefghijklmnopqrstuvwxyz"
UpperCase == "ABCDEFGHIJKLMNOPQRSTUVWXYZ"

toupper(c) ==
    IF \E k \in 1 .. 26 : SubSeq(LowerCase, k, k) = c
      THEN LET k == CHOOSE j \in 1 .. 26 : SubSeq(LowerCase, j, j) = c
           IN  SubSeq(UpperCase, k, k)
      ELSE c

\* buffer with character k (0-based) replaced by c
SetChar(s, k, c) == SubSeq(s, 1, k) \o c \o SubSeq(s, k + 2, Len(s))

DecDigits == "0123456789"
DigitChar(d) == SubSeq(DecDigits, d + 1, d + 1)

\* printf("%d") of an integer
RECURSIVE NatToStr(_)
NatToStr(n) == IF n < 10 THEN DigitChar(n)
               ELSE NatToStr(n \div 10) \o DigitChar(n % 10)
IntToStr(n) == IF n < 0 THEN "-" \o NatToStr(-n) ELSE NatToStr(n)

RECURSIVE Pow10(_)
Pow10(n) == IF n = 0 THEN 1 ELSE 10 * Pow10(n - 1)

\* n as exactly d digits (leading zeros kept)
RECURSIVE PadDigits(_, _)
PadDigits(n, d) == IF d = 0 THEN ""
                   ELSE PadDigits(n \div 10, d - 1) \o DigitChar(n % 10)

RECURSIVE StripZeros(_)
StripZeros(s) == IF Len(s) > 0 /\ SubSeq(s, Len(s), Len(s)) = "0"
                   THEN StripZeros(SubSeq(s, 1, Len(s) - 1))
                   ELSE s

(***************************************************************************)
(* printf("%g", w / 2540.0) for an integer 0 <= w < 2540 * 10^6: six       *)
(* significant digits, trailing zeros removed.  The quotient is produced   *)
(* by long division, <<floor(w * 10^d / 2540), remainder>>.                *)
(***************************************************************************)
RECURSIVE DivScaled(_, _)
DivScaled(w, d) ==
    IF d = 0 THEN <<w \div 2540, w % 2540>>
    ELSE LET p == DivScaled(w, d - 1)
         IN  <<p[1] * 10 + (p[2] * 10) \div 2540, (p[2] * 10) % 2540>>

\* the decimal exponent of w / 2540 (w > 0)
GExponent(w) ==
    IF w >= 2540
      THEN Len(NatToStr(w \div 2540)) - 1
      ELSE - (CHOOSE d \in 1 .. 4 :
                /\ DivScaled(w, d)[1] >= 1
                /\ \A e \in 1 .. d - 1 : DivScaled(w, e)[1] = 0)

FormatG(w) ==
    IF w = 0 THEN "0"
    ELSE LET d    == 5 - GExponent(w)
             p    == DivScaled(w, d)
             n    == p[1] + (IF 2 * p[2] >= 2540 THEN 1 ELSE 0)
             frac == StripZeros(PadDigits(n % Pow10(d), d))
         IN  NatToStr(n \div Pow10(d))
               \o (IF frac = "" THEN "" ELSE "." \o frac)


(***************************************************************************)
(* pwgMediaForPWG (libcups): the registry of PWG self-describing media     *)
(* size names.  A known name gives its PPD name and its width and length   *)
(* in hundredths of millimetres (1/2540 inch); any other name gives NULL.  *)
(***************************************************************************)
NULL == [null |-> TRUE]

PwgEntry(ppd, width, length) ==
    [null |-> FALSE, ppd |-> ppd, width |-> width, length |-> length]

PwgMediaTable ==
    [ na_letter_8p5x11in     |-> PwgEntry("Letter", 21590, 27940),
      na_legal_8p5x14in      |-> PwgEntry("Legal",  21590, 35560),
      na_number10_4p125x9p5in |-> PwgEntry("Env10", 10477, 24130),
      iso_a4_210x297mm       |-> PwgEntry("A4",     21000, 29700),
      iso_a5_148x210mm       |-> PwgEntry("A5",     14800, 21000),
      iso_a6_105x148mm       |-> PwgEntry("A6",     10500, 14800),
      iso_dl_110x220mm       |-> PwgEntry("EnvDL",  11000, 22000),
      jis_b5_182x257mm       |-> PwgEntry("B5",     18200, 25700),
      na_index4x6_4x6in      |-> PwgEntry("4x6",    10160, 15240),
      na_5x7_5x7in           |-> PwgEntry("5x7",    12700, 17780),
      oe_photol_3p5x5in      |-> PwgEntry("3.5x5",   8890, 12700),
      \* self-describing names pwgMediaForPWG parses (this file reads only
      \* their width and length)
      custom_min_3x5in       |-> PwgEntry("",        7620, 12700),
      custom_min_10x10in     |-> PwgEntry("",       25400, 25400),
      custom_max_8p5x14in    |-> PwgEntry("",       21590, 35560),
      roll_max_4x39p6in      |-> PwgEntry("",       10160, 100584) ]

\* the names of the table, as the keywords spell them
PwgNames ==
    [ na_letter_8p5x11in     |-> "na_letter_8.5x11in",
      na_legal_8p5x14in      |-> "na_legal_8.5x14in",
      na_number10_4p125x9p5in |-> "na_number-10_4.125x9.5in",
      iso_a4_210x297mm       |-> "iso_a4_210x297mm",
      iso_a5_148x210mm       |-> "iso_a5_148x210mm",
      iso_a6_105x148mm       |-> "iso_a6_105x148mm",
      iso_dl_110x220mm       |-> "iso_dl_110x220mm",
      jis_b5_182x257mm       |-> "jis_b5_182x257mm",
      na_index4x6_4x6in      |-> "na_index-4x6_4x6in",
      na_5x7_5x7in           |-> "na_5x7_5x7in",
      oe_photol_3p5x5in      |-> "oe_photo-l_3.5x5in",
      custom_min_3x5in       |-> "custom_min_3x5in",
      custom_min_10x10in     |-> "custom_min_10x10in",
      custom_max_8p5x14in    |-> "custom_max_8.5x14in",
      roll_max_4x39p6in      |-> "roll_max_4x39.6in" ]

pwgMediaForPWG(pwg) ==
    IF \E k \in DOMAIN PwgNames : PwgNames[k] = pwg
      THEN PwgMediaTable[CHOOSE k \in DOMAIN PwgNames : PwgNames[k] = pwg]
      ELSE NULL

(***************************************************************************)
(* localize_keyword.  The result is the set of outcomes of the call: the   *)
(* C string left in buffer, or a fatal error (the process is killed).  A   *)
(* call whose behaviour is undefined has every outcome it can produce.     *)
(***************************************************************************)
Returns(buffer) == {[fatal |-> FALSE, buffer |-> buffer]}
Crashes == {[fatal |-> TRUE, buffer |-> ""]}

\* lines 1076-1082: the "photographic" family
PhotographicLabel(keyword) ==
    IF CharAt(keyword, 12) = "-"
      THEN IF CharAt(keyword, 13) = NUL
             \* "%c" stores the NUL of keyword[13], which ends the string in
             \* buffer; "%s" then reads keyword + 14, past the terminator
             THEN Returns("") \cup Crashes
             ELSE Returns(toupper(CharAt(keyword, 13)) \o StrFrom(keyword, 14)
                            \o " Photo Paper")
      ELSE Returns("Photo Paper")

\* lines 1103-1122: attribute "media"
MediaLabel(keyword) ==
    LET pwg == pwgMediaForPWG(keyword)
    IN  IF pwg.null
          THEN Crashes                \* strcmp(pwg->ppd, ...) on a NULL pwg
          ELSE IF pwg.ppd = "Letter" THEN Returns("US Letter")
          ELSE IF pwg.ppd = "Legal" THEN Returns("US Legal")
          ELSE IF pwg.ppd = "Env10" THEN Returns("#10 Envelope")
          ELSE IF pwg.ppd \in {"A4", "A5", "A6"} THEN Returns(pwg.ppd)
          ELSE IF pwg.ppd = "EnvDL" THEN Returns("DL Envelope")
          ELSE IF pwg.width % 100 = 0 /\ pwg.width % 2540 # 0
            THEN Returns(IntToStr(pwg.width \div 100) \o " x "
                           \o IntToStr(pwg.length \div 100) \o "mm")
            ELSE Returns(FormatG(pwg.width) \o " x "
                           \o FormatG(pwg.length) \o "\"")

\* lines 1127-1134: the loop over buffer, ptr the 0-based position
RECURSIVE FallbackLoop(_, _)
FallbackLoop(buffer, ptr) ==
    IF CharAt(buffer, ptr) = NUL THEN buffer
    ELSE IF CharAt(buffer, ptr) = "-" /\ CharAt(buffer, ptr + 1) # NUL
      THEN FallbackLoop(
             SetChar(SetChar(buffer, ptr, " "),
                     ptr + 1, toupper(CharAt(buffer, ptr + 1))),
             ptr + 2)
      ELSE FallbackLoop(buffer, ptr + 1)

\* lines 1123-1135: the generic fallback
FallbackLabel(keyword) ==
    IF keyword = ""
      \* *buffer stays NUL and the loop starts at buffer + 1, past the
      \* terminator, in the uninitialized rest of the caller's buffer
      THEN Returns("") \cup Crashes
      ELSE Returns(FallbackLoop(
                     SetChar(keyword, 0, toupper(CharAt(keyword, 0))), 1))

localize_keyword(attrname, keyword) ==
    IF keyword = "bi-level" THEN Returns("B&W (no shading)")
    ELSE IF keyword = "monochrome" THEN Returns("B&W")
    ELSE IF keyword = "main-roll" THEN Returns("Main")
    ELSE IF keyword = "alternate-roll" THEN Returns("Alternate")
    ELSE IF keyword = "labels" THEN Returns("Cut Labels")
    ELSE IF keyword = "labels-continuous" THEN Returns("Continuous Labels")
    ELSE IF attrname = "media-type" /\ keyword = "continuous"
      THEN Returns("Continuous Paper")
    ELSE IF StrNCmpEq(keyword, "photographic", 12)
      THEN PhotographicLabel(keyword)
    ELSE IF keyword = "stationery" THEN Returns("Plain Paper")
    ELSE IF keyword = "stationery-letterhead" THEN Returns("Letterhead")
    ELSE IF keyword = "one-sided" THEN Returns("Off")
    ELSE IF keyword = "two-sided-long-edge" THEN Returns("On (Portrait)")
    ELSE IF keyword = "two-sided-short-edge" THEN Returns("On (Landscape)")
    ELSE IF attrname = "media" THEN MediaLabel(keyword)
    ELSE FallbackLabel(keyword)


(***************************************************************************)
(* media_chooser, lines 1188-1276: the size select and the custom size     *)
(* inputs.  A NULL min_size/max_size is the empty string (an entry that is *)
(* assigned to them starts with "custom_" or "roll_").                     *)
(***************************************************************************)
\* strstr(s, sub) != NULL
StrStr(s, sub) ==
    \E k \in 1 .. Len(s) - Len(sub) + 1 : SubSeq(s, k, k + Len(sub) - 1) = sub

\* lines 1201 and 1219
IsCustomOrRoll(size) == StrNCmpEq(size, "custom_", 7) \/ StrNCmpEq(size, "roll_", 5)

\* lines 1203-1206 and 1221-1224: <<min_size, max_size>> after entry size
NoteSentinel(size, mm) ==
    IF StrStr(size, "_min_") THEN <<size, mm[2]>>
    ELSE IF StrStr(size, "_max_") THEN <<mm[1], size>>
    ELSE mm

\* lines 1199-1208: the first scan, which stops once both are found
RECURSIVE FirstScan(_, _, _)
FirstScan(sizes, i, mm) ==
    IF ~(i < Len(sizes) /\ (mm[1] = "" \/ mm[2] = "")) THEN mm
    ELSE FirstScan(sizes, i + 1,
                   IF IsCustomOrRoll(sizes[i + 1])
                     THEN NoteSentinel(sizes[i + 1], mm) ELSE mm)

\* line 1232: the option is marked when sel_index == cur_index
OptionSelected(sel_index, cur_index) == sel_index = cur_index

\* lines 1217-1234: the second scan, which writes the options;
\* st = [mm, cur_index, sel_index, options, fatal].  localize_keyword is an
\* argument of the printf of line 1232: when it dies, nothing more is written.
RECURSIVE OptionScan(_, _, _, _)
OptionScan(sizes, size_name, i, st) ==
    IF ~(i < Len(sizes)) THEN st
    ELSE LET size == sizes[i + 1] IN
      IF IsCustomOrRoll(size)
        THEN OptionScan(sizes, size_name, i + 1,
                        [st EXCEPT !.mm = NoteSentinel(size, st.mm)])
        ELSE LET sel  == IF size = size_name THEN st.cur_index ELSE st.sel_index
                 text == localize_keyword("media", size)
             IN  IF text = Crashes
                   THEN [st EXCEPT !.fatal = TRUE]
                   ELSE OptionScan(sizes, size_name, i + 1,
                          [st EXCEPT
                             !.sel_index = sel,
                             !.options   = Append(st.options,
                                 [ value    |-> size,
                                   selected |-> OptionSelected(sel, st.cur_index),
                                   text     |-> (CHOOSE o \in text : ~o.fatal).buffer ]),
                             !.cur_index = st.cur_index + 1])

\* the maximum falling back to the minimum's 1in x 1in
MaxBoundsMutant(max_size) ==
    LET pwg == pwgMediaForPWG(max_size)
    IN  IF ~pwg.null THEN [width |-> pwg.width, length |-> pwg.length]
        ELSE [width |-> 1 * 2540, length |-> 1 * 2540]

\* lines 1241-1261: the bounds of the custom size
MinBounds(min_size) ==
    LET pwg == pwgMediaForPWG(min_size)
    IN  IF ~pwg.null THEN [width |-> pwg.width, length |-> pwg.length]
        ELSE [width |-> 1 * 2540, length |-> 1 * 2540]

MaxBounds(max_size) ==
    LET pwg == pwgMediaForPWG(max_size)
    IN  IF ~pwg.null THEN [width |-> pwg.width, length |-> pwg.length]
        ELSE [width |-> 9 * 2540, length |-> 22 * 2540]

\* the clamp without its upper half
ClampMutant(v, min, max) == IF v < min THEN min ELSE v

\* lines 1263-1271: if ((cur = v) < min) cur = min; else if (cur > max) cur = max;
Clamp(v, min, max) == IF v < min THEN min ELSE IF v > max THEN max ELSE v

\* the custom size inputs of line 1273, or NoCustom (line 1276)
NoCustom == [present |-> FALSE]

CustomRange(mm, media, sel_index) ==
    IF mm[1] # "" /\ mm[2] # ""
      THEN LET min == MinBounds(mm[1])
               max == MaxBounds(mm[2])
           IN  [ present    |-> TRUE,
                 display    |-> IF sel_index = 0 THEN "inline-block" ELSE "none",
                 min_width  |-> min.width,   max_width  |-> max.width,
                 min_length |-> min.length,  max_length |-> max.length,
                 cur_width  |-> Clamp(media.size_width, min.width, max.width),
                 cur_length |-> Clamp(media.size_length, min.length, max.length) ]
      ELSE NoCustom

media_chooser(sizes, media) ==
    LET first == FirstScan(sizes, 0, <<"", "">>)
        has_custom == first[1] # "" /\ first[2] # ""
        scan == OptionScan(sizes, media.size_name, 0,
                  [ mm        |-> first,
                    cur_index |-> IF has_custom THEN 1 ELSE 0,
                    sel_index |-> 0,
                    options   |-> << >>,
                    fatal     |-> FALSE ])
    IN  [ fatal         |-> scan.fatal,
          custom_option |-> has_custom,
          options       |-> scan.options,
          custom        |-> IF scan.fatal THEN NoCustom
                           ELSE CustomRange(scan.mm, media, scan.sel_index) ]


(***************************************************************************)
(* The C library conversions the decoders use.  Numbers are written with   *)
(* decimal digits, an optional sign and an optional fraction; atoi/atof    *)
(* stop at the first character that cannot continue the number and give 0  *)
(* when no digit was read.                                                 *)
(***************************************************************************)
IsDigit(c) == \E d \in 0 .. 9 : DigitChar(d) = c
DigitVal(c) == CHOOSE d \in 0 .. 9 : DigitChar(d) = c

RECURSIVE SkipSpaces(_, _)
SkipSpaces(s, k) == IF CharAt(s, k) = " " THEN SkipSpaces(s, k + 1) ELSE k

\* digits of s from position k: [val, pos, n] (value, position after, count)
RECURSIVE ScanDigits(_, _, _, _)
ScanDigits(s, k, val, n) ==
    IF IsDigit(CharAt(s, k))
      THEN ScanDigits(s, k + 1, 10 * val + DigitVal(CharAt(s, k)), n + 1)
      ELSE [val |-> val, pos |-> k, n |-> n]

\* a signed integer at position k (after white space): [ok, val, pos]
ScanInt(s, k) ==
    LET k0   == SkipSpaces(s, k)
        neg  == CharAt(s, k0) = "-"
        k1   == IF CharAt(s, k0) \in {"-", "+"} THEN k0 + 1 ELSE k0
        digs == ScanDigits(s, k1, 0, 0)
    IN  [ ok  |-> digs.n > 0,
          val |-> IF neg THEN - digs.val ELSE digs.val,
          pos |-> digs.pos ]

atoi(s) == LET r == ScanInt(s, 0) IN IF r.ok THEN r.val ELSE 0

\* atof: the decimal m / 10^d as [m, d]
atof(s) ==
    LET k0   == SkipSpaces(s, 0)
        neg  == CharAt(s, k0) = "-"
        k1   == IF CharAt(s, k0) \in {"-", "+"} THEN k0 + 1 ELSE k0
        int  == ScanDigits(s, k1, 0, 0)
        frac == IF CharAt(s, int.pos) = "."
                  THEN ScanDigits(s, int.pos + 1, int.val, 0)
                  ELSE [val |-> int.val, pos |-> int.pos, n |-> 0]
    IN  IF int.n + frac.n = 0 THEN [m |-> 0, d |-> 0]
        ELSE [m |-> IF neg THEN - frac.val ELSE frac.val, d |-> frac.n]

\* integer division that truncates toward zero, as a C cast to int does
TruncDiv(a, b) == IF a >= 0 THEN a \div b ELSE - ((- a) \div b)

\* (int)(factor * v): the product is cut, not rounded, to an integer
CastInt(factor, v) == TruncDiv(factor * v.m, Pow10(v.d))

\* the decimal strings whose double, times 100.0, lies just below the exact
\* product, so that the cast gives one less (2.3 * 100.0 = 229.99999999999997)
Times100RoundsBelow == {"2.3", "4.1", "4.6", "5.1"}

\* printf("%.2f") of a decimal with at most two fraction digits
FormatF2(v) ==
    LET h == v.m * Pow10(2 - v.d)
        a == IF h < 0 THEN - h ELSE h
    IN  (IF h < 0 THEN "-" ELSE "") \o NatToStr(a \div 100) \o "."
          \o PadDigits(a % 100, 2)

\* sscanf(value, "%dx%ddpi", &x, &y): [n, x, y], n the number of values stored
ScanResolution(value) ==
    LET a == ScanInt(value, 0)
        b == ScanInt(value, a.pos + 1)
    IN  IF ~a.ok THEN [n |-> 0, x |-> 0, y |-> 0]
        ELSE IF CharAt(value, a.pos) # "x" \/ ~b.ok
          THEN [n |-> 1, x |-> a.val, y |-> 0]
          ELSE [n |-> 2, x |-> a.val, y |-> b.val]


(***************************************************************************)
(* Form variables (cups_option_t): a function from the names present to    *)
(* their values.  An absent name is cupsGetOption's NULL.                  *)
(***************************************************************************)
HasOption(name, form) == name \in DOMAIN form
NumForm(form) == Cardinality(DOMAIN form)

(***************************************************************************)
(* Keyword lookups of the library (_papplColorModeValue, ...): the flag of *)
(* the k-th keyword is 2^(k-1), and a keyword that is not in the table     *)
(* gives 0.  ippEnumValue gives -1 for a keyword that is no enum value.    *)
(***************************************************************************)
ColorModes == << "auto", "auto-monochrome", "bi-level", "color", "monochrome",
                 "process-bi-level", "process-monochrome" >>
Contents   == << "auto", "graphic", "photo", "text", "text-and-graphic" >>
Scalings   == << "auto", "auto-fit", "fill", "fit", "none" >>
Sides      == << "one-sided", "two-sided-long-edge", "two-sided-short-edge" >>
Trackings  == << "continuous", "mark", "web" >>
Qualities  == << "draft", "normal", "high" >>

LookupValue(table, keyword) ==
    IF \E k \in DOMAIN table : table[k] = keyword
      THEN Pow2((CHOOSE k \in DOMAIN table : table[k] = keyword) - 1)
      ELSE 0

ColorModeValue(value) == LookupValue(ColorModes, value)
ContentValue(value) == LookupValue(Contents, value)
ScalingValue(value) == LookupValue(Scalings, value)
SidesValue(value) == LookupValue(Sides, value)
MediaTrackingValue(value) == LookupValue(Trackings, value)

\* ippEnumValue("print-quality", value): IPP_QUALITY_DRAFT is 3
ippEnumValue(value) ==
    IF \E k \in DOMAIN Qualities : Qualities[k] = value
      THEN 2 + (CHOOSE k \in DOMAIN Qualities : Qualities[k] = value)
      ELSE -1

(***************************************************************************)
(* _papplPrinterWebDefaults, lines 277-317: the form is decoded into data, *)
(* the handler's copy of the driver data.                                  *)
(***************************************************************************)
\* the speed added to the stored one ('+=' for '=')
DecodeSpeedMutant(data, value) ==
    [data EXCEPT !.speed_default = data.speed_default + atoi(value) * 2540]

\* line 296
DecodeSpeed(data, value) == [data EXCEPT !.speed_default = atoi(value) * 2540]

\* one captured value stored as x only
DecodeResolutionMutant(data, value) ==
    LET r == ScanResolution(value)
    IN  IF r.n = 2 THEN [data EXCEPT !.x_default = r.x, !.y_default = r.y]
        ELSE IF r.n = 1 THEN [data EXCEPT !.x_default = r.x]
        ELSE data

\* lines 301-305
DecodeResolution(data, value) ==
    LET r == ScanResolution(value)
    IN  IF r.n = 2 THEN [data EXCEPT !.x_default = r.x, !.y_default = r.y]
        ELSE IF r.n = 1 THEN [data EXCEPT !.x_default = r.x, !.y_default = r.x]
        ELSE data

\* the slot of the first source, whichever source has the name
DecodeMediaSourceMutant(data, value) ==
    IF \E i \in 1 .. data.num_source : data.source[i] = value
      THEN [data EXCEPT !.media_default = data.media_ready[1]]
      ELSE data

\* lines 309-316: the first source with that name
DecodeMediaSource(data, value) ==
    IF \E i \in 1 .. data.num_source : data.source[i] = value
      THEN LET i == CHOOSE j \in 1 .. data.num_source :
                      /\ data.source[j] = value
                      /\ \A k \in 1 .. j - 1 : data.source[k] # value
           IN  [data EXCEPT !.media_default = data.media_ready[i]]
      ELSE data

\* line 278
DecodeOrient(data, value) == [data EXCEPT !.orient_default = atoi(value)]

\* line 281
DecodeColorMode(data, value) == [data EXCEPT !.color_default = ColorModeValue(value)]

\* line 284
DecodeContent(data, value) == [data EXCEPT !.content_default = ContentValue(value)]

\* line 287
DecodeDarkness(data, value) == [data EXCEPT !.darkness_configured = atoi(value)]

\* line 290
DecodeQuality(data, value) == [data EXCEPT !.quality_default = ippEnumValue(value)]

\* line 293
DecodeScaling(data, value) == [data EXCEPT !.scaling_default = ScalingValue(value)]

\* line 299
DecodeSides(data, value) == [data EXCEPT !.sides_default = SidesValue(value)]

\* the keys in the order the handler reads them
DefaultsKeys ==
    << "orientation-requested", "print-color-mode", "print-content-optimize",
       "print-darkness", "print-quality", "print-scaling", "print-speed", "sides",
       "printer-resolution", "media-source" >>

\* the assignment made for key number k
DecodeKey(k, data, value) ==
    CASE k = 1  -> DecodeOrient(data, value)
      [] k = 2  -> DecodeColorMode(data, value)
      [] k = 3  -> DecodeContent(data, value)
      [] k = 4  -> DecodeDarkness(data, value)
      [] k = 5  -> DecodeQuality(data, value)
      [] k = 6  -> DecodeScaling(data, value)
      [] k = 7  -> DecodeSpeed(data, value)
      [] k = 8  -> DecodeSides(data, value)
      [] k = 9  -> DecodeResolution(data, value)
      [] k = 10 -> DecodeMediaSource(data, value)

\* every key assigned, an absent one from the empty string
RECURSIVE DecodeFromMutant(_, _, _)
DecodeFromMutant(k, data, form) ==
    IF k > Len(DefaultsKeys) THEN data
    ELSE DecodeFromMutant(k + 1,
                          DecodeKey(k, data,
                                    IF HasOption(DefaultsKeys[k], form)
                                      THEN form[DefaultsKeys[k]] ELSE ""),
                          form)

\* the "if ((value = cupsGetOption(name, ...)) != NULL)" statements from
\* number k on
RECURSIVE DecodeFrom(_, _, _)
DecodeFrom(k, data, form) ==
    IF k > Len(DefaultsKeys) THEN data
    ELSE DecodeFrom(k + 1,
                    IF HasOption(DefaultsKeys[k], form)
                      THEN DecodeKey(k, data, form[DefaultsKeys[k]])
                      ELSE data,
                    form)

WebDefaultsDecode(data, form) == DecodeFrom(1, data, form)

(***************************************************************************)
(* _papplPrinterWebMedia, lines 807-867.                                   *)
(***************************************************************************)
ZeroMedia ==
    [ size_name |-> "", size_width |-> 0, size_length |-> 0, source |-> "",
      bottom_margin |-> 0, top_margin |-> 0, left_margin |-> 0, right_margin |-> 0,
      left_offset |-> 0, top_offset |-> 0, tracking |-> 0, type |-> "" ]

\* the decode without the memset
ResetReadyMutant(media_ready) == media_ready

\* line 807: memset(data.media_ready, 0, sizeof(data.media_ready))
ResetReady(media_ready) == [k \in DOMAIN media_ready |-> ZeroMedia]

\* the names counted from 1
ReadyNameMutant(i, attr) == "ready" \o IntToStr(i + 1) \o attr

\* snprintf(name, sizeof(name), "ready%d<attr>", i)
ReadyName(i, attr) == "ready" \o IntToStr(i) \o attr

\* lines 825-826: (int)(2540.0 * atof(custom))
CustomDimension(custom) == CastInt(2540, atof(custom))

\* an incomplete custom size keeping the value of the size key as its name
ReadySizeIncompleteMutant(ready, data, form, i) ==
    LET value == form[ReadyName(i, "-size")]
        w     == ReadyName(i, "-custom-width")
        l     == ReadyName(i, "-custom-length")
        pwg   == pwgMediaForPWG(value)
    IN  IF value = "custom" /\ HasOption(w, form) /\ HasOption(l, form)
          THEN [ready EXCEPT
                  !.size_name   = "custom_" \o data.source[i + 1] \o "_"
                                    \o FormatF2(atof(form[w])) \o "x"
                                    \o FormatF2(atof(form[l])) \o "in",
                  !.size_width  = CustomDimension(form[w]),
                  !.size_length = CustomDimension(form[l])]
        ELSE IF value = "custom"
          THEN [ready EXCEPT !.size_name = value]
        ELSE IF ~pwg.null
          THEN [ready EXCEPT !.size_name   = value,
                             !.size_width  = pwg.width,
                             !.size_length = pwg.length]
          ELSE ready

\* the registry's width and length stored the wrong way round
ReadySizeMutant(ready, data, form, i) ==
    LET value == form[ReadyName(i, "-size")]
        pwg   == pwgMediaForPWG(value)
    IN  IF value # "custom" /\ ~pwg.null
          THEN [ready EXCEPT !.size_name   = value,
                             !.size_width  = pwg.length,
                             !.size_length = pwg.width]
          ELSE ready

\* lines 815-834: size
ReadySize(ready, data, form, i) ==
    LET value == form[ReadyName(i, "-size")]
        w     == ReadyName(i, "-custom-width")
        l     == ReadyName(i, "-custom-length")
        pwg   == pwgMediaForPWG(value)
    IN  IF value = "custom"
          THEN IF HasOption(w, form) /\ HasOption(l, form)
                 THEN [ready EXCEPT
                         !.size_name   = "custom_" \o data.source[i + 1] \o "_"
                                           \o FormatF2(atof(form[w])) \o "x"
                                           \o FormatF2(atof(form[l])) \o "in",
                         !.size_width  = CustomDimension(form[w]),
                         !.size_length = CustomDimension(form[l])]
                 ELSE ready
        ELSE IF ~pwg.null
          THEN [ready EXCEPT !.size_name   = value,
                             !.size_width  = pwg.width,
                             !.size_length = pwg.length]
          ELSE ready

\* borderless taken from the value of the checkbox, not from its presence
ReadyMarginsMutant(ready, data, form, i) ==
    IF HasOption(ReadyName(i, "-borderless"), form)
         /\ form[ReadyName(i, "-borderless")] # ""
      THEN [ready EXCEPT !.bottom_margin = 0, !.top_margin = 0,
                         !.left_margin = 0, !.right_margin = 0]
      ELSE [ready EXCEPT !.bottom_margin = data.bottom_top,
                         !.top_margin = data.bottom_top,
                         !.left_margin = data.left_right,
                         !.right_margin = data.left_right]

\* lines 839-850: margins
ReadyMargins(ready, data, form, i) ==
    IF HasOption(ReadyName(i, "-borderless"), form)
      THEN [ready EXCEPT !.bottom_margin = 0, !.top_margin = 0,
                         !.left_margin = 0, !.right_margin = 0]
      ELSE [ready EXCEPT !.bottom_margin = data.bottom_top,
                         !.top_margin = data.bottom_top,
                         !.left_margin = data.left_right,
                         !.right_margin = data.left_right]

\* line 856: (int)(100.0 * atof(value))
TopOffsetValue(value) ==
    CastInt(100, atof(value)) - (IF value \in Times100RoundsBelow THEN 1 ELSE 0)

\* the left offset decoded as the top offset is
ReadyRestMutant(ready, data, form, i) ==
    LET e  == ReadyName(i, "-left-offset")
        o  == ReadyName(i, "-top-offset")
        t  == ReadyName(i, "-tracking")
        y  == ReadyName(i, "-type")
        r0 == IF HasOption(e, form)
                THEN [ready EXCEPT !.left_offset = TopOffsetValue(form[e])] ELSE ready
        r1 == IF HasOption(o, form)
                THEN [r0 EXCEPT !.top_offset = TopOffsetValue(form[o])] ELSE r0
        r2 == IF HasOption(t, form)
                THEN [r1 EXCEPT !.tracking = MediaTrackingValue(form[t])] ELSE r1
    IN  IF HasOption(y, form) THEN [r2 EXCEPT !.type = form[y]] ELSE r2

\* lines 853-866: top-offset, tracking, type
ReadyRest(ready, data, form, i) ==
    LET o  == ReadyName(i, "-top-offset")
        t  == ReadyName(i, "-tracking")
        y  == ReadyName(i, "-type")
        r1 == IF HasOption(o, form)
                THEN [ready EXCEPT !.top_offset = TopOffsetValue(form[o])] ELSE ready
        r2 == IF HasOption(t, form)
                THEN [r1 EXCEPT !.tracking = MediaTrackingValue(form[t])] ELSE r1
    IN  IF HasOption(y, form) THEN [r2 EXCEPT !.type = form[y]] ELSE r2

\* every slot named after the first source
DecodeReadyMutant(ready, data, form, i) ==
    IF ~HasOption(ReadyName(i, "-size"), form)
      THEN ready
      ELSE LET r1 == ReadySize(ready, data, form, i)
               r2 == [r1 EXCEPT !.source = data.source[1]]
               r3 == ReadyMargins(r2, data, form, i)
           IN  ReadyRest(r3, data, form, i)

\* lines 810-866: the body of the loop for source i (0-based)
DecodeReady(ready, data, form, i) ==
    IF ~HasOption(ReadyName(i, "-size"), form)
      THEN ready                                        \* continue
      ELSE LET r1 == ReadySize(ready, data, form, i)
               r2 == [r1 EXCEPT !.source = data.source[i + 1]]
               r3 == ReadyMargins(r2, data, form, i)
           IN  ReadyRest(r3, data, form, i)

\* the default media following the first slot
WebMediaDecodeMutant(data, form) ==
    LET cleared == ResetReady(data.media_ready)
        ready   == [k \in DOMAIN cleared |->
                      IF k <= data.num_source
                        THEN DecodeReady(cleared[k], data, form, k - 1)
                        ELSE cleared[k]]
    IN  [data EXCEPT !.media_ready = ready, !.media_default = ready[1]]

\* lines 807-867
WebMediaDecode(data, form) ==
    LET cleared == ResetReady(data.media_ready)
    IN  [data EXCEPT !.media_ready =
           [k \in DOMAIN cleared |->
              IF k <= data.num_source
                THEN DecodeReady(cleared[k], data, form, k - 1)
                ELSE cleared[k]]]


(***************************************************************************)
(* SpecLocalize: one call of localize_keyword.                             *)
(***************************************************************************)
\* the attribute names the file passes to localize_keyword
AttrNames ==
    { "media", "media-source", "media-tracking", "media-type", "print-color-mode",
      "print-content-optimize", "print-quality", "print-scaling", "sides" }

\* every string of at most n characters over the characters of alphabet
RECURSIVE StringsUpTo(_, _)
StringsUpTo(alphabet, n) ==
    IF n = 0 THEN {""}
    ELSE LET shorter == StringsUpTo(alphabet, n - 1)
         IN  shorter \cup {w \o c : w \in shorter, c \in alphabet}

Keywords ==
    { "bi-level", "monochrome", "main-roll", "alternate-roll", "labels",
      "labels-continuous", "continuous", "stationery", "stationery-letterhead",
      "one-sided", "two-sided-long-edge", "two-sided-short-edge",
      "photographic", "photographic-glossy", "photographic-g", "photographic-",
      "photographicx", "unknown-keyword", "auto", "tray-1", "text-and-graphic",
      "unknown_size" }
      \cup {PwgNames[k] : k \in { "na_letter_8p5x11in", "na_legal_8p5x14in",
              "na_number10_4p125x9p5in", "iso_a4_210x297mm", "iso_a5_148x210mm",
              "iso_a6_105x148mm", "iso_dl_110x220mm", "jis_b5_182x257mm",
              "na_index4x6_4x6in", "na_5x7_5x7in", "oe_photol_3p5x5in" }}
      \cup StringsUpTo({"a", "-"}, MaxKeywordLen)

LocalizeKeyword ==
    /\ pc = "call"
    /\ \E outcome \in localize_keyword(call.attrname, call.keyword) :
         ret' = outcome
    /\ pc' = "done"
    /\ UNCHANGED <<statusVars, printerVars, html, call, queueVars>>

InitLocalize ==
    /\ pc = "call"
    /\ call \in [attrname : AttrNames, keyword : Keywords]
    /\ ret = None
    /\ html = None
    /\ NoStatus /\ NoPrinter /\ NoQueue

NextLocalize == LocalizeKeyword

SpecLocalize == InitLocalize /\ [][NextLocalize]_vars

(***************************************************************************)
(* SpecChooser: one call of media_chooser.                                 *)
(***************************************************************************)
\* entries of driver_data.media: sizes of the registry, sentinels that
\* resolve and that do not, and a name the registry does not know
ChooserSizes ==
    { "na_letter_8.5x11in", "iso_a4_210x297mm", "unknown_size",
      "custom_min_3x5in", "custom_min_10x10in", "custom_min_bad",
      "custom_max_8.5x14in", "roll_max_bad", "custom_current_4x6in" }

RECURSIVE SeqsUpTo(_, _)
SeqsUpTo(S, n) ==
    IF n = 0 THEN {<< >>}
    ELSE LET shorter == SeqsUpTo(S, n - 1)
         IN  shorter \cup {Append(q, x) : q \in shorter, x \in S}

\* the current media of the slot: size name, width and length
ChooserMedia ==
    [ size_name   : {"", "iso_a4_210x297mm", "custom_tray-1_4.00x6.00in"},
      size_width  : {-2540, 0, 10160, 30000},
      size_length : {0, 15240, 254000} ]

MediaChooser ==
    /\ pc = "call"
    /\ ret' = media_chooser(call.sizes, call.media)
    /\ pc' = "done"
    /\ UNCHANGED <<statusVars, printerVars, html, call, queueVars>>

InitChooser ==
    /\ pc = "call"
    /\ call \in [sizes : SeqsUpTo(ChooserSizes, MaxMedia), media : ChooserMedia]
    /\ ret = None
    /\ html = None
    /\ NoStatus /\ NoPrinter /\ NoQueue

NextChooser == MediaChooser

SpecChooser == InitChooser /\ [][NextChooser]_vars


(***************************************************************************)
(* The accessors of the printer the handlers call.                         *)
(***************************************************************************)
\* papplPrinterGetPrintDriverData(printer, &data): data is a copy
GetPrintDriverData(stored) == stored

\* papplPrinterSetPrintDefaults(printer, &data): the defaults of data
SetPrintDefaults(stored, data) ==
    [stored EXCEPT
       !.orient_default      = data.orient_default,
       !.color_default       = data.color_default,
       !.content_default     = data.content_default,
       !.darkness_configured = data.darkness_configured,
       !.quality_default     = data.quality_default,
       !.scaling_default     = data.scaling_default,
       !.speed_default       = data.speed_default,
       !.sides_default       = data.sides_default,
       !.x_default           = data.x_default,
       !.y_default           = data.y_default,
       !.media_default       = data.media_default]

\* papplPrinterSetReadyMedia(printer, num_ready, ready): the first num_ready
\* slots of ready, the other slots zeroed
SetReadyMedia(stored, num_ready, ready) ==
    [stored EXCEPT !.media_ready =
       [k \in DOMAIN stored.media_ready |->
          IF k <= num_ready /\ k <= stored.num_source THEN ready[k] ELSE ZeroMedia]]

(***************************************************************************)
(* The handlers.  A request is [authorized, operation, form, valid]:       *)
(* papplClientHTMLAuthorize's answer, client->operation, the variables     *)
(* papplClientGetForm gives and papplClientValidateForm's answer.  Of the  *)
(* page written, html keeps the title, the status banner and, on the media *)
(* page, the choosers.                                                      *)
(***************************************************************************)
\* the branches without the validation of the form
FormStatusMutant(req) ==
    IF req.operation # "POST" THEN "none"
    ELSE IF NumForm(req.form) = 0 THEN "Invalid form data."
    ELSE "Changes saved."

\* lines 260-273 and 786-799: which branch a request takes
FormStatus(req) ==
    IF req.operation # "POST" THEN "none"
    ELSE IF NumForm(req.form) = 0 THEN "Invalid form data."
    ELSE IF ~req.valid THEN "Invalid form submission."
    ELSE "Changes saved."

\* lines 255-331
PrinterWebDefaults(req) ==
    /\ UNCHANGED client
    /\ IF ~req.authorized
         THEN /\ html' = None                              \* line 256
              /\ UNCHANGED driver_data
         ELSE LET data   == GetPrintDriverData(driver_data)
                  status == FormStatus(req)
              IN  /\ driver_data' =
                       IF status = "Changes saved."
                         THEN SetPrintDefaults(driver_data,
                                               WebDefaultsDecode(data, req.form))
                         ELSE driver_data
                  /\ html' = [title |-> "Printing Defaults", status |-> status]

\* lines 1283-1300: the names of the offset inputs of the chooser called
\* with base name name, in the order they are written
OffsetInputs(data, name) ==
    (IF data.left_offset_supported[2] # 0
       THEN << name \o "-left-offset" >> ELSE << >>)
      \o (IF data.top_offset_supported[2] # 0
            THEN << name \o "-top-offset" >> ELSE << >>)

\* lines 887-894: the offset inputs of these choosers, named "ready<i>"
MediaOffsetInputs(data) ==
    [i \in {j \in 1 .. data.num_source : data.source[j] # "manual"} |->
       OffsetInputs(data, "ready" \o IntToStr(i - 1))]

\* lines 887-894: a chooser for every source but "manual"
MediaChoosers(data) ==
    [i \in {j \in 1 .. data.num_source : data.source[j] # "manual"} |->
       media_chooser(data.media, data.media_ready[i])]

\* lines 781-910
PrinterWebMedia(req) ==
    /\ UNCHANGED client
    /\ IF ~req.authorized
         THEN /\ html' = None                              \* line 782
              /\ UNCHANGED driver_data
         ELSE LET data    == GetPrintDriverData(driver_data)
                  status  == FormStatus(req)
                  decoded == IF status = "Changes saved."
                               THEN WebMediaDecode(data, req.form) ELSE data
              IN  /\ driver_data' =
                       IF status = "Changes saved."
                         THEN SetReadyMedia(driver_data, decoded.num_source,
                                            decoded.media_ready)
                         ELSE driver_data
                  /\ html' = [title |-> "Media", status |-> status,
                              choosers |-> MediaChoosers(decoded),
                              offsets  |-> MediaOffsetInputs(decoded)]

(***************************************************************************)
(* SpecDecode: a printer and one request to /printing or /media.           *)
(***************************************************************************)
LetterMedia ==
    [ZeroMedia EXCEPT !.size_name = "na_letter_8.5x11in", !.size_width = 21590,
       !.size_length = 27940, !.source = "tray-1", !.bottom_margin = 1270,
       !.top_margin = 1270, !.left_margin = 635, !.right_margin = 635,
       !.type = "stationery"]

LabelMedia ==
    [ZeroMedia EXCEPT !.size_name = "custom_tray-2_4.00x6.00in", !.size_width = 10160,
       !.size_length = 15240, !.source = "tray-2", !.left_offset = 50,
       !.top_offset = 150, !.tracking = 2, !.type = "labels"]

A4Media ==
    [ZeroMedia EXCEPT !.size_name = "iso_a4_210x297mm", !.size_width = 21000,
       !.size_length = 29700, !.source = "tray-1", !.bottom_margin = 1270,
       !.top_margin = 1270, !.left_margin = 635, !.right_margin = 635,
       !.type = "photographic-glossy"]

\* two sources, both loaded
PrinterTwoTrays ==
    [ num_source |-> 2, source |-> <<"tray-1", "tray-2">>,
      media_ready |-> <<LetterMedia, LabelMedia>>, media_default |-> LetterMedia,
      media |-> <<"na_letter_8.5x11in", "iso_a4_210x297mm", "custom_min_3x5in",
                  "custom_max_8.5x14in">>,
      bottom_top |-> 1270, left_right |-> 635,
      left_offset_supported |-> <<0, 200>>, top_offset_supported |-> <<0, 200>>,
      orient_default |-> 3, color_default |-> 8, content_default |-> 4,
      darkness_configured |-> 50, quality_default |-> 4, scaling_default |-> 8,
      speed_default |-> 5080, sides_default |-> 2,
      x_default |-> 300, y_default |-> 600 ]

\* one source; the second slot of the array is unused
PrinterOneTray ==
    [ PrinterTwoTrays EXCEPT
        !.num_source = 1, !.source = <<"tray-1", "">>,
        !.media_ready = <<A4Media, ZeroMedia>>, !.media_default = A4Media,
        !.media = <<"na_letter_8.5x11in", "iso_a4_210x297mm">>,
        !.left_offset_supported = <<0, 0>>,
        !.orient_default = 4, !.color_default = 16, !.content_default = 1,
        !.darkness_configured = 100, !.quality_default = 5, !.scaling_default = 1,
        !.speed_default = 2540, !.sides_default = 1,
        !.x_default = 600, !.y_default = 600 ]

Printers == {PrinterTwoTrays, PrinterOneTray}

\* the values a form variable of the model may have
DefaultsValues ==
    [ orientation_requested  |-> {"4", "abc"},
      print_color_mode       |-> {"monochrome", "bogus"},
      print_content_optimize |-> {"photo", "bogus"},
      print_darkness         |-> {"25", "dark"},
      print_quality          |-> {"high", "bogus"},
      print_scaling          |-> {"fit", "bogus"},
      print_speed            |-> {"3", "fast"},
      sides                  |-> {"two-sided-short-edge", "bogus"},
      printer_resolution     |-> {"300x600dpi", "1200dpi", "dpi"},
      media_source           |-> {"tray-1", "tray-2", "bogus"} ]

DefaultsNames ==
    [ orientation_requested  |-> "orientation-requested",
      print_color_mode       |-> "print-color-mode",
      print_content_optimize |-> "print-content-optimize",
      print_darkness         |-> "print-darkness",
      print_quality          |-> "print-quality",
      print_scaling          |-> "print-scaling",
      print_speed            |-> "print-speed",
      sides                  |-> "sides",
      printer_resolution     |-> "printer-resolution",
      media_source           |-> "media-source" ]

ReadyValues ==
    [ size          |-> {"na_letter_8.5x11in", "custom", "bogus_size"},
      custom_width  |-> {"4.00", "4.02", "wide"},
      custom_length |-> {"6.00", "11.69"},
      borderless    |-> {"", "on"},
      left_offset   |-> {"1.0"},
      top_offset    |-> {"1.5", "2.3"},
      tracking      |-> {"web", "bogus"},
      type          |-> {"labels"} ]

ReadyAttrs ==
    [ size          |-> "-size",
      custom_width  |-> "-custom-width",
      custom_length |-> "-custom-length",
      borderless    |-> "-borderless",
      left_offset   |-> "-left-offset",
      top_offset    |-> "-top-offset",
      tracking      |-> "-tracking",
      type          |-> "-type" ]

\* <<name, value>> pairs a request may carry
DefaultsPairs ==
    UNION {{<<DefaultsNames[k], v>> : v \in DefaultsValues[k]} : k \in DOMAIN DefaultsNames}

\* ready0-* with every value, some ready1-*, and ready2-* for no slot
ReadyPairs ==
    UNION {{<<ReadyName(0, ReadyAttrs[k]), v>> : v \in ReadyValues[k]} :
             k \in DOMAIN ReadyAttrs}
      \cup { <<"ready1-size", "iso_a4_210x297mm">>, <<"ready1-size", "custom">>,
             <<"ready1-custom-width", "4.02">>, <<"ready1-custom-length", "6.00">>,
             <<"ready1-type", "labels">>, <<"ready2-size", "na_letter_8.5x11in">> }

\* the forms with at most n of the pairs (one value for a name)
RECURSIVE FormsOf(_, _)
FormsOf(pairs, n) ==
    IF n = 0 THEN {<< >>}
    ELSE LET fewer == FormsOf(pairs, n - 1)
         IN  fewer \cup {f @@ (p[1] :> p[2]) :
                           f \in fewer, p \in pairs}


DefaultsForms == FormsOf(DefaultsPairs, MaxFormKeys)
MediaForms == FormsOf(ReadyPairs, MaxFormKeys)

\* a GET carries no form; a POST carries one, which may fail validation
Requests(uri, forms) ==
    {[authorized |-> a, operation |-> "GET", uri |-> uri, form |-> << >>,
      valid |-> TRUE] : a \in BOOLEAN}
      \cup [authorized : BOOLEAN, operation : {"POST"}, uri : {uri},
            form : forms, valid : BOOLEAN]

\* the request is routed to the handler of its uri
WebDefaults ==
    /\ pc = "call"
    /\ client.uri = "/printing"
    /\ PrinterWebDefaults(client)
    /\ pc' = "done"
    /\ UNCHANGED <<statusVars, callVars, queueVars>>

WebMedia ==
    /\ pc = "call"
    /\ client.uri = "/media"
    /\ PrinterWebMedia(client)
    /\ pc' = "done"
    /\ UNCHANGED <<statusVars, callVars, queueVars>>

InitDecode ==
    /\ pc = "call"
    /\ driver_data \in Printers
    /\ client \in Requests("/printing", DefaultsForms)
                    \cup Requests("/media", MediaForms)
    /\ html = None
    /\ NoStatus /\ NoCall /\ NoQueue

NextDecode == WebDefaults \/ WebMedia

SpecDecode == InitDecode /\ [][NextDecode]_vars


(***************************************************************************)
(* SpecSession: requests to /printing and /media one after the other, on   *)
(* the printer the earlier ones left.                                      *)
(***************************************************************************)
SessionDefaultsPairs ==
    { <<"media-source", "tray-1">>, <<"media-source", "tray-2">>,
      <<"media-source", "bogus">>, <<"print-speed", "3">> }

SessionReadyPairs ==
    { <<"ready0-size", "na_letter_8.5x11in">>, <<"ready0-size", "iso_a4_210x297mm">>,
      <<"ready1-size", "iso_a4_210x297mm">>, <<"ready0-type", "labels">> }

SessionRequests ==
    Requests("/printing", FormsOf(SessionDefaultsPairs, MaxSessionKeys))
      \cup Requests("/media", FormsOf(SessionReadyPairs, MaxSessionKeys))

\* the next request arrives once the handler has returned
NextRequest ==
    /\ pc = "done"
    /\ client' \in SessionRequests
    /\ html' = None
    /\ pc' = "call"
    /\ UNCHANGED <<driver_data, statusVars, callVars, queueVars>>

InitSession ==
    /\ pc = "call"
    /\ driver_data \in Printers
    /\ client \in SessionRequests
    /\ html = None
    /\ NoStatus /\ NoCall /\ NoQueue

NextSession == WebDefaults \/ WebMedia \/ NextRequest

SpecSession == InitSession /\ [][NextSession]_vars


(***************************************************************************)
(* The configuration page and the two cancel pages.  printer_config is     *)
(* [multi_queue, location, organization, contact, system]: the system      *)
(* option, three of the values _papplPrinterWebConfigFinalize sets (the    *)
(* DNS-SD name, the geo-location and the organizational unit are set as    *)
(* location and organization are) and the form handed to the system's      *)
(* finalize.  jobs is [ids, cancelled]: the ids of the printer's jobs and  *)
(* the jobs papplJobCancel was called for.  html.responses is what the     *)
(* handler sent, in order.                                                 *)
(***************************************************************************)
\* papplPrinterFindJob's NULL
NullJob == 0

\* papplPrinterFindJob(printer, job_id)
FindJob(queue, job_id) == IF job_id \in queue.ids THEN job_id ELSE NullJob

\* papplJobCancel(job)
JobCancel(queue, job) == [queue EXCEPT !.cancelled = @ \cup {job}]

\* papplPrinterCancelAllJobs(printer)
CancelAllJobs(queue) == [queue EXCEPT !.cancelled = @ \cup queue.ids]

\* lines 172-176 and 194-195: papplPrinterSetLocation, ...SetOrganization
\* (an empty value is passed as NULL and clears the string)
SetIfPresent(config, field, name, form) ==
    IF HasOption(name, form) THEN [config EXCEPT ![field] = form[name]] ELSE config

\* lines 200-217: the contact is replaced as a whole
SetContact(config, form) ==
    IF HasOption("contact_name", form) \/ HasOption("contact_email", form)
      THEN [config EXCEPT !.contact =
              [ name  |-> IF HasOption("contact_name", form)
                            THEN form["contact_name"] ELSE "",
                email |-> IF HasOption("contact_email", form)
                            THEN form["contact_email"] ELSE "" ]]
      ELSE config

\* lines 160-218
PrinterWebConfigFinalize(config, form) ==
    SetContact(
      SetIfPresent(SetIfPresent(config, "location", "location", form),
                   "organization", "organization", form),
      form)

\* _papplSystemWebConfigFinalize(printer->system, num_form, form)
SystemWebConfigFinalize(config, form) == [config EXCEPT !.system = form]

\* lines 1348-1355 and following: papplClientRespondHTTP answered ok
printer_header(ok) == IF ok THEN << "200", "header" >> ELSE << >>

\* lines 146-147, 650-651, 751-752: the banner
Banner(status) == IF status = "none" THEN << >> ELSE << "banner" >>

\* what a handler that ended left in html
Page(title, status, responses) ==
    [ title |-> title, status |-> status, fatal |-> FALSE, responses |-> responses ]

\* lines 116-152
PrinterWebConfig(req) ==
    /\ UNCHANGED <<client, driver_data, jobs>>
    /\ IF ~req.authorized
         THEN /\ html' = None                              \* line 117
              /\ UNCHANGED printer_config
         ELSE LET status == FormStatus(req) IN
              /\ printer_config' =
                   IF status = "Changes saved."
                     THEN LET set == PrinterWebConfigFinalize(printer_config, req.form)
                          IN  IF ~printer_config.multi_queue
                                THEN SystemWebConfigFinalize(set, req.form)
                                ELSE set
                     ELSE printer_config
              /\ \E ok \in BOOLEAN :
                   html' = Page("Configuration", status,
                                printer_header(ok) \o Banner(status)
                                  \o << "info", "footer" >>)

\* lines 622-677
PrinterWebCancelAllJobs(req) ==
    /\ UNCHANGED <<client, driver_data, printer_config>>
    /\ IF ~req.authorized
         THEN /\ html' = None                              \* line 623
              /\ UNCHANGED jobs
         ELSE LET branch   == FormStatus(req)
                  redirect == branch = "Changes saved."
                  status   == IF redirect THEN "none" ELSE branch
              IN  /\ jobs' = IF redirect THEN CancelAllJobs(jobs) ELSE jobs
                  /\ \E ok \in BOOLEAN :
                       html' = Page("Cancel All Jobs", status,
                                    (IF redirect THEN << "302" >> ELSE << >>)
                                      \o printer_header(ok) \o Banner(status)
                                      \o << "form", "jobs", "footer" >>)

\* a cancel on GET as on POST
CancelJobCancelsMutant(req) ==
    /\ NumForm(req.form) # 0
    /\ HasOption("job-id", req.form)
    /\ atoi(req.form["job-id"]) # 0

\* lines 701-730: job_id after the form was read
CancelJobId(req) ==
    IF /\ NumForm(req.form) # 0
       /\ req.operation = "GET" \/ (req.operation = "POST" /\ req.valid)
       /\ HasOption("job-id", req.form)
      THEN atoi(req.form["job-id"])
      ELSE 0

\* lines 717-740: the request reaches papplJobCancel
CancelJobCancels(req) ==
    /\ req.operation = "POST"
    /\ NumForm(req.form) # 0
    /\ req.valid
    /\ CancelJobId(req) # 0

\* lines 701-736: the status message
CancelJobStatus(req) ==
    IF req.operation = "GET"
      THEN IF NumForm(req.form) = 0 THEN "Invalid GET data." ELSE "none"
    ELSE IF NumForm(req.form) = 0 THEN "Invalid form data."
    ELSE IF ~req.valid THEN "Invalid form submission."
    ELSE IF CancelJobId(req) = 0 THEN "Invalid Job ID."
    ELSE "none"

\* lines 699-762.  papplJobCancel is called with what papplPrinterFindJob
\* gave, NULL included; that call may end the process.
PrinterWebCancelJob(req) ==
    /\ UNCHANGED <<client, driver_data, printer_config>>
    /\ IF ~req.authorized
         THEN /\ html' = None                              \* line 700
              /\ UNCHANGED jobs
         ELSE LET job_id  == CancelJobId(req)
                  job     == FindJob(jobs, job_id)
                  cancels == CancelJobCancels(req)
                  status  == CancelJobStatus(req)
              IN  /\ jobs' = IF cancels THEN JobCancel(jobs, job) ELSE jobs
                  /\ \E ok \in BOOLEAN :
                     \E dies \in (IF cancels /\ job = NullJob THEN BOOLEAN ELSE {FALSE}) :
                       html' = IF dies
                                 THEN [Page("Cancel Job", "none", << >>)
                                         EXCEPT !.fatal = TRUE]
                                 ELSE Page("Cancel Job", status,
                                        (IF cancels THEN << "302" >> ELSE << >>)
                                          \o printer_header(ok) \o Banner(status)
                                          \o (IF job_id # 0 THEN << "form" >> ELSE << >>)
                                          \o << "footer" >>)

(***************************************************************************)
(* SpecPages: a printer with its configuration and jobs, and one request   *)
(* to one of the five pages that change the printer.                       *)
(***************************************************************************)
ConfigPairs ==
    { <<"location", "Lab">>, <<"location", "">>, <<"organization", "Acme">>,
      <<"contact_name", "Ann">>, <<"contact_email", "ann@example.com">> }

\* job-id values: no number, zero, a job, no job
JobIdPairs ==
    { <<"job-id", "abc">>, <<"job-id", "0">>, <<"job-id", "1">>, <<"job-id", "7">>,
      <<"session", "x">> }

\* a GET with the variables of its query string
GetRequests(uri, forms) ==
    [authorized : BOOLEAN, operation : {"GET"}, uri : {uri}, form : forms,
     valid : {TRUE}]

PageRequests ==
    Requests("/config", FormsOf(ConfigPairs, MaxSessionKeys))
      \cup Requests("/cancelall", FormsOf(JobIdPairs, MaxSessionKeys))
      \cup Requests("/cancel", FormsOf(JobIdPairs, MaxSessionKeys))
      \cup GetRequests("/cancel", FormsOf(JobIdPairs, MaxSessionKeys))
      \cup Requests("/printing", FormsOf(SessionDefaultsPairs, MaxSessionKeys))
      \cup Requests("/media", FormsOf(SessionReadyPairs, MaxSessionKeys))

PageConfigs ==
    [ multi_queue : BOOLEAN, location : {"Hall"}, organization : {""},
      contact : {[name |-> "Bob", email |-> "bob@example.com"]}, system : {None} ]

PageJobs == [ ids : SUBSET (1 .. MaxJobs), cancelled : {{}} ]

WebConfig ==
    /\ pc = "call"
    /\ client.uri = "/config"
    /\ PrinterWebConfig(client)
    /\ pc' = "done"
    /\ UNCHANGED <<statusVars, callVars>>

WebCancelAllJobs ==
    /\ pc = "call"
    /\ client.uri = "/cancelall"
    /\ PrinterWebCancelAllJobs(client)
    /\ pc' = "done"
    /\ UNCHANGED <<statusVars, callVars>>

WebCancelJob ==
    /\ pc = "call"
    /\ client.uri = "/cancel"
    /\ PrinterWebCancelJob(client)
    /\ pc' = "done"
    /\ UNCHANGED <<statusVars, callVars>>

InitPages ==
    /\ pc = "call"
    /\ driver_data \in Printers
    /\ printer_config \in PageConfigs
    /\ jobs \in PageJobs
    /\ client \in PageRequests
    /\ html = None
    /\ NoStatus /\ NoCall

NextPages == WebConfig \/ WebDefaults \/ WebMedia \/ WebCancelAllJobs \/ WebCancelJob

SpecPages == InitPages /\ [][NextPages]_vars


(***************************************************************************)
(* Properties.                                                             *)
(***************************************************************************)

\* ---- the status line (SpecReasons) ----

\* the declared condition flags with their labels, in ascending flag order
FlagLabels ==
    << <<1, "Other">>, <<2, "Cover Open">>, <<4, "Tray Missing">>,
       <<8, "Out of Ink">>, <<16, "Low Ink">>, <<32, "Waste Tank Almost Full">>,
       <<64, "Waste Tank Full">>, <<128, "Media Empty">>, <<256, "Media Jam">>,
       <<512, "Media Low">>, <<1024, "Media Needed">>, <<2048, "Too Many Jobs">>,
       <<4096, "Out of Toner">>, <<8192, "Low Toner">> >>

\* the labels of the flags number k and up that are set in R
RECURSIVE LabelsOfSetFlags(_, _)
LabelsOfSetFlags(R, k) ==
    IF k > Len(FlagLabels) THEN << >>
    ELSE (IF (R \div FlagLabels[k][1]) % 2 = 1 THEN <<FlagLabels[k][2]>> ELSE << >>)
           \o LabelsOfSetFlags(R, k + 1)

\* C1: for every bitmask R of condition reasons the status line lists exactly
\* the labels of the flags set in R, in ascending flag order, and the label
\* of no flag that is not set in R.
ReasonLabelsExact ==
    pc = "done" => html.reasons = LabelsOfSetFlags(printer_reasons, 1)

\* C1 witness: cover open, media jam and the largest flag, low toner
ReasonLabelsExactWitness ==
    /\ pc = "done"
    /\ printer_reasons = 2 + 256 + 8192
    /\ html.reasons = <<"Cover Open", "Media Jam", "Low Toner">>

\* ---- the media chooser (SpecChooser) ----

\* the chooser has written the custom size inputs
RangeRendered == pc = "done" /\ ~ret.fatal /\ ret.custom.present

\* min <= c <= max
Within(c, min, max) == min <= c /\ c <= max

\* C2 as stated: for every value and every bound pair the chooser computes,
\* min <= clamp(v, min, max) <= max, and clamp(v, min, max) = v whenever
\* min <= v <= max.
ClampWithinAnyBounds ==
    RangeRendered =>
      LET c == ret.custom
          m == call.media
      IN  /\ Within(c.cur_width, c.min_width, c.max_width)
          /\ Within(c.cur_length, c.min_length, c.max_length)
          /\ Within(m.size_width, c.min_width, c.max_width)
               => c.cur_width = m.size_width
          /\ Within(m.size_length, c.min_length, c.max_length)
               => c.cur_length = m.size_length

\* C2 amended: for every value and every bound pair with min <= max that the
\* chooser computes, min <= clamp(v, min, max) <= max; and for every bound
\* pair, clamp(v, min, max) = v whenever min <= v <= max.
ClampWithinOrderedBounds ==
    RangeRendered =>
      LET c == ret.custom
          m == call.media
      IN  /\ c.min_width <= c.max_width
               => Within(c.cur_width, c.min_width, c.max_width)
          /\ c.min_length <= c.max_length
               => Within(c.cur_length, c.min_length, c.max_length)
          /\ Within(m.size_width, c.min_width, c.max_width)
               => c.cur_width = m.size_width
          /\ Within(m.size_length, c.min_length, c.max_length)
               => c.cur_length = m.size_length

\* C2 witness: a width above the maximum and a length of zero, both
\* saturated, between ordered bounds
ClampWithinOrderedBoundsWitness ==
    /\ RangeRendered
    /\ ret.custom.min_width <= ret.custom.max_width
    /\ ret.custom.min_length <= ret.custom.max_length
    /\ call.media.size_width > ret.custom.max_width
    /\ ret.custom.cur_width = ret.custom.max_width
    /\ call.media.size_length = 0
    /\ ret.custom.cur_length = ret.custom.min_length

\* the last minimum and the last maximum sentinel of the list ("" for none)
RECURSIVE LastSentinel(_, _, _)
LastSentinel(sizes, mark, k) ==
    IF k = 0 THEN ""
    ELSE IF IsCustomOrRoll(sizes[k]) /\ StrStr(sizes[k], mark)
              /\ (mark = "_max_" => ~StrStr(sizes[k], "_min_"))
      THEN sizes[k]
      ELSE LastSentinel(sizes, mark, k - 1)

MinSentinel == LastSentinel(call.sizes, "_min_", Len(call.sizes))
MaxSentinel == LastSentinel(call.sizes, "_max_", Len(call.sizes))

\* C8: the chooser writes no custom size range (no synthetic choice, no
\* bounds, no inputs) when the size list lacks a minimum or a maximum
\* sentinel; when both are there and the range is written, a sentinel the
\* registry cannot resolve gives the fallback bound, 2540 x 2540 for the
\* minimum and 22860 x 55880 for the maximum.
CustomRangeResolved ==
    pc = "done" =>
      /\ (MinSentinel = "" \/ MaxSentinel = "")
           => ~ret.custom_option /\ ~ret.custom.present
      /\ (MinSentinel # "" /\ MaxSentinel # "" /\ ~ret.fatal)
           => /\ ret.custom_option /\ ret.custom.present
              /\ pwgMediaForPWG(MinSentinel).null
                   => ret.custom.min_width = 2540 /\ ret.custom.min_length = 2540
              /\ pwgMediaForPWG(MaxSentinel).null
                   => ret.custom.max_width = 22860 /\ ret.custom.max_length = 55880

\* C8 witness: both sentinels in the list, neither resolves, and the range
\* has the four fallback bounds
CustomRangeResolvedWitness ==
    /\ RangeRendered
    /\ MinSentinel = "custom_min_bad" /\ MaxSentinel = "roll_max_bad"
    /\ ret.custom.min_width = 2540 /\ ret.custom.min_length = 2540
    /\ ret.custom.max_width = 22860 /\ ret.custom.max_length = 55880

\* ---- localize_keyword (SpecLocalize) ----

\* the fixed table of keywords and labels
LabelTable ==
    { <<"bi-level", "B&W (no shading)">>, <<"monochrome", "B&W">>,
      <<"main-roll", "Main">>, <<"alternate-roll", "Alternate">>,
      <<"labels", "Cut Labels">>, <<"labels-continuous", "Continuous Labels">>,
      <<"stationery", "Plain Paper">>, <<"stationery-letterhead", "Letterhead">>,
      <<"one-sided", "Off">>, <<"two-sided-long-edge", "On (Portrait)">>,
      <<"two-sided-short-edge", "On (Landscape)">> }

\* keyword is in no table (the fixed one, the entry of media-type, for
\* media the registry of sizes) and in no family (photographic...)
OutsideEveryTable(attrname, keyword) ==
    /\ \A e \in LabelTable : e[1] # keyword
    /\ ~(attrname = "media-type" /\ keyword = "continuous")
    /\ ~StrNCmpEq(keyword, "photographic", 12)
    /\ ~(attrname = "media" /\ ~pwgMediaForPWG(keyword).null)

\* the generic label: first character and every character after a replaced
\* hyphen in upper case
GenericLabel(keyword) ==
    IF keyword = "" THEN ""
    ELSE FallbackLoop(SetChar(keyword, 0, toupper(CharAt(keyword, 0))), 1)

\* the call returned label
Labelled(label) == ~ret.fatal /\ ret.buffer = label

\* C7: localize_keyword gives "Plain Paper" for (media-type, stationery),
\* "On (Landscape)" for (sides, two-sided-short-edge) and "Unknown Keyword"
\* for (media-type, unknown-keyword); a keyword of the fixed table gets its
\* table label and a keyword outside every table and family gets the generic
\* fallback label.
LocalizeTableOrFallback ==
    pc = "done" =>
      /\ (call.attrname = "media-type" /\ call.keyword = "stationery")
           => Labelled("Plain Paper")
      /\ (call.attrname = "sides" /\ call.keyword = "two-sided-short-edge")
           => Labelled("On (Landscape)")
      /\ (call.attrname = "media-type" /\ call.keyword = "unknown-keyword")
           => Labelled("Unknown Keyword")
      /\ \A e \in LabelTable : call.keyword = e[1] => Labelled(e[2])
      /\ OutsideEveryTable(call.attrname, call.keyword)
           => Labelled(GenericLabel(call.keyword))

\* C9: for every attribute name and every keyword localize_keyword ends
\* without a fatal error and returns a label that is not empty.
LocalizeTotalNonEmpty ==
    pc = "done" => ~ret.fatal /\ ret.buffer # ""

\* ---- the form decoders (SpecDecode) ----

\* the request was decoded and handed back by the handler of uri
Saved(uri) ==
    /\ pc = "done"
    /\ client.uri = uri
    /\ client.authorized
    /\ html.status = "Changes saved."

\* C3: decoding the same form a second time, into the descriptor the first
\* decode left, gives that descriptor again (the scalar defaults with
\* media-source on /printing, the ready-media slots on /media).
DecodeIdempotent ==
    /\ Saved("/printing") =>
         SetPrintDefaults(driver_data,
             WebDefaultsDecode(GetPrintDriverData(driver_data), client.form))
           = driver_data
    /\ Saved("/media") =>
         SetReadyMedia(driver_data, driver_data.num_source,
             WebMediaDecode(GetPrintDriverData(driver_data), client.form).media_ready)
           = driver_data

\* C3 witness: a speed of 3 was decoded over another stored speed
DecodeIdempotentWitness ==
    /\ Saved("/printing")
    /\ HasOption("print-speed", client.form)
    /\ client.form["print-speed"] = "3"
    /\ driver_data.speed_default = 7620

\* ready-media states a printer may hold before the decode
PriorReady ==
    { <<LetterMedia, LabelMedia>>, <<LabelMedia, A4Media>>, <<A4Media, ZeroMedia>>,
      <<ZeroMedia, ZeroMedia>> }

\* C4: after a ready-media decode every slot i whose ready<i>-size is absent
\* from the form is all zero and empty, whatever it held and whatever other
\* ready<i>-* keys the form has; the decoded slots are the same for every
\* prior ready-media state.
AbsentSizeResetsSlot ==
    Saved("/media") =>
      /\ \A k \in DOMAIN driver_data.media_ready :
           ~HasOption(ReadyName(k - 1, "-size"), client.form)
             => driver_data.media_ready[k] = ZeroMedia
      /\ \A prior \in PriorReady :
           SetReadyMedia(driver_data, driver_data.num_source,
               WebMediaDecode([driver_data EXCEPT !.media_ready = prior],
                              client.form).media_ready).media_ready
             = driver_data.media_ready

\* C4 witness: the form has a type but no size for the first source, whose
\* slot (loaded in every printer of Printers) is all zero now
AbsentSizeResetsSlotWitness ==
    /\ Saved("/media")
    /\ HasOption("ready0-type", client.form)
    /\ ~HasOption("ready0-size", client.form)
    /\ driver_data.media_ready[1] = ZeroMedia

\* the slots of the sources whose ready<i>-size is in the form, as pairs
\* <<value of ready<i>-size, slot i>>
SizedSlots ==
    { <<client.form[ReadyName(k - 1, "-size")], driver_data.media_ready[k]>> :
        k \in { j \in 1 .. driver_data.num_source :
                  HasOption(ReadyName(j - 1, "-size"), client.form) } }

\* width and length of slot are those the registry has for keyword, or zero
\* when the registry does not know it
RegistrySize(keyword, slot) ==
    LET pwg == pwgMediaForPWG(keyword)
    IN  IF pwg.null
          THEN slot.size_width = 0 /\ slot.size_length = 0
          ELSE slot.size_width = pwg.width /\ slot.size_length = pwg.length

\* C5 as stated: a slot whose ready<i>-size names a registry size has the
\* registry's width and length, which for na_letter_8.5x11in are 2550 and
\* 3300; an unknown keyword leaves width and length zero.
RegistrySizeLetter2550 ==
    Saved("/media") =>
      \A e \in SizedSlots :
        e[1] # "custom" =>
          /\ RegistrySize(e[1], e[2])
          /\ e[1] = "na_letter_8.5x11in"
               => e[2].size_width = 2550 /\ e[2].size_length = 3300

\* C5 amended: a slot whose ready<i>-size names a registry size has the
\* registry's width and length, which for na_letter_8.5x11in are 21590 and
\* 27940 (8.5in and 11in times 2540); an unknown keyword leaves width and
\* length zero.
RegistrySizeLetter21590 ==
    Saved("/media") =>
      \A e \in SizedSlots :
        e[1] # "custom" =>
          /\ RegistrySize(e[1], e[2])
          /\ e[1] = "na_letter_8.5x11in"
               => e[2].size_width = 21590 /\ e[2].size_length = 27940

\* C5 witness: ready0-size=na_letter_8.5x11in was decoded into the first slot
RegistrySizeLetter21590Witness ==
    /\ Saved("/media")
    /\ HasOption("ready0-size", client.form)
    /\ client.form["ready0-size"] = "na_letter_8.5x11in"
    /\ driver_data.media_ready[1].size_name = "na_letter_8.5x11in"
    /\ driver_data.media_ready[1].size_width = 21590
    /\ driver_data.media_ready[1].size_length = 27940

\* value is digits, a point and two digits
IsTwoDecimal(value) ==
    LET n == Len(value)
    IN  /\ n >= 4
        /\ CharAt(value, n - 3) = "."
        /\ \A k \in 0 .. n - 1 : k # n - 3 => IsDigit(CharAt(value, k))

\* the integer nearest to 2540 times the decimal value
Round2540(value) ==
    LET v == atof(value)
    IN  (2 * 2540 * v.m + Pow10(v.d)) \div (2 * Pow10(v.d))

\* C6: a slot whose ready<i>-size is "custom", with both custom fields in
\* the form as two-decimal inch values, has width and length
\* round(2540 * value), the nearest integer and not the truncation.
CustomSizeRounded ==
    Saved("/media") =>
      \A k \in 1 .. driver_data.num_source :
        LET size   == ReadyName(k - 1, "-size")
            width  == ReadyName(k - 1, "-custom-width")
            length == ReadyName(k - 1, "-custom-length")
            f      == client.form
        IN  (/\ HasOption(size, f) /\ HasOption(width, f) /\ HasOption(length, f)
             /\ f[size] = "custom"
             /\ IsTwoDecimal(f[width]) /\ IsTwoDecimal(f[length]))
              => /\ driver_data.media_ready[k].size_width = Round2540(f[width])
                 /\ driver_data.media_ready[k].size_length = Round2540(f[length])

\* value is an integer: an optional sign and digits
IsInteger(value) ==
    LET r == ScanInt(value, 0) IN r.ok /\ r.pos = Len(value)

InTable(table, value) == \E k \in DOMAIN table : table[k] = value

\* the keys of the scalar defaults with the field each sets and whether a
\* value is valid for it
ScalarKeys ==
    { [key |-> "orientation-requested", field |-> "orient_default"],
      [key |-> "print-color-mode", field |-> "color_default"],
      [key |-> "print-content-optimize", field |-> "content_default"],
      [key |-> "print-darkness", field |-> "darkness_configured"],
      [key |-> "print-quality", field |-> "quality_default"],
      [key |-> "print-scaling", field |-> "scaling_default"],
      [key |-> "print-speed", field |-> "speed_default"],
      [key |-> "sides", field |-> "sides_default"] }

ValidScalar(key, value) ==
    CASE key = "print-color-mode" -> InTable(ColorModes, value)
      [] key = "print-content-optimize" -> InTable(Contents, value)
      [] key = "print-quality" -> InTable(Qualities, value)
      [] key = "print-scaling" -> InTable(Scalings, value)
      [] key = "sides" -> InTable(Sides, value)
      [] OTHER -> IsInteger(value)

\* C10: in the decode of the scalar defaults a key that is present with an
\* invalid value (an unknown keyword, a number that does not parse) leaves
\* its default as it was.
InvalidScalarKeepsDefault ==
    [][(pc = "call" /\ client.uri = "/printing")
         => \A e \in ScalarKeys :
              (HasOption(e.key, client.form)
                 /\ ~ValidScalar(e.key, client.form[e.key]))
                => driver_data'[e.field] = driver_data[e.field]]_vars

\* every key of the defaults decode with a field it sets
DefaultsFields ==
    ScalarKeys \cup
      { [key |-> "printer-resolution", field |-> "x_default"],
        [key |-> "printer-resolution", field |-> "y_default"],
        [key |-> "media-source", field |-> "media_default"] }

\* the step is the handler of uri taking the request
Handles(uri) == pc = "call" /\ client.uri = uri

\* C11: in the decode of the scalar defaults a key that is absent from the
\* form leaves its default (orientation, color mode, content, darkness,
\* quality, scaling, speed, sides, x and y resolution, default media) as it
\* was before the decode.
AbsentKeyKeepsDefault ==
    [][Handles("/printing")
         => \A e \in DefaultsFields :
              ~HasOption(e.key, client.form)
                => driver_data'[e.field] = driver_data[e.field]]_vars

\* C11 witness: a form with print-speed and without print-darkness was
\* decoded; the speed is the form's, the darkness one of the printers'
AbsentKeyKeepsDefaultWitness ==
    /\ Saved("/printing")
    /\ HasOption("print-speed", client.form)
    /\ client.form["print-speed"] = "3"
    /\ ~HasOption("print-darkness", client.form)
    /\ driver_data.speed_default = 7620
    /\ driver_data.darkness_configured \in {50, 100}

\* the request gets a decode: an authorized POST of a form that is not
\* empty and passes validation
Decodable(req) ==
    /\ req.authorized
    /\ req.operation = "POST"
    /\ NumForm(req.form) > 0
    /\ req.valid

\* C12: the stored configuration changes only by the hand-back that follows
\* the decode of the whole form: a request that is not a POST, has an empty
\* form or fails validation leaves the stored configuration as it was, and
\* a decoded request changes only what its hand-back stores (the defaults
\* on /printing, the ready media on /media).
NoHandBackNoChange ==
    [][pc = "call"
         => /\ ~Decodable(client) => driver_data' = driver_data
            /\ client.uri = "/printing"
                 => driver_data' = SetPrintDefaults(driver_data, driver_data')
            /\ client.uri = "/media"
                 => driver_data' = SetReadyMedia(driver_data, driver_data.num_source,
                                                 driver_data'.media_ready)]_vars

\* C12 witness: a POST with print-speed=3 that failed validation was
\* answered and the printer is one of the initial ones
NoHandBackNoChangeWitness ==
    /\ pc = "done"
    /\ client.authorized /\ client.operation = "POST" /\ ~client.valid
    /\ HasOption("print-speed", client.form)
    /\ client.form["print-speed"] = "3"
    /\ html.status = "Invalid form submission."
    /\ driver_data \in Printers

\* the form variable "ready<i><attr>"
SlotKey(i, attr) == "ready" \o NatToStr(i) \o attr

\* the form without the variables ready<N>-* with N not below n
InRangeForm(form, n) ==
    LET keep == DOMAIN form \cap
                  {SlotKey(i, ReadyAttrs[a]) : i \in 0 .. n - 1, a \in DOMAIN ReadyAttrs}
    IN  [key \in keep |-> form[key]]

\* C13: form variables ready<N>-* with N not below the number of sources
\* change no slot: the form decodes to the slots that the form without
\* these variables decodes to (and the request is answered as any other).
OutOfRangeKeysIgnored ==
    [][(Handles("/media") /\ Decodable(client))
         => /\ driver_data'.media_ready =
                 SetReadyMedia(driver_data, driver_data.num_source,
                     WebMediaDecode(driver_data,
                         InRangeForm(client.form, driver_data.num_source)).media_ready
                   ).media_ready
            /\ html'.status = "Changes saved."]_vars

\* C13 witness: a printer with one source got ready0-size and ready1-size;
\* the first slot is decoded and the second still all zero
OutOfRangeKeysIgnoredWitness ==
    /\ Saved("/media")
    /\ driver_data.num_source = 1
    /\ HasOption("ready0-size", client.form)
    /\ HasOption("ready1-size", client.form)
    /\ driver_data.media_ready[1].source = "tray-1"
    /\ driver_data.media_ready[2] = ZeroMedia

\* the sources (1-based) whose ready<i>-size is in the form
SizedSources ==
    { k \in 1 .. driver_data.num_source : HasOption(SlotKey(k - 1, "-size"), client.form) }

\* slot without its size
Unsized(slot) ==
    [slot EXCEPT !.size_name = "", !.size_width = 0, !.size_length = 0]

\* slot k has the source, margins, top offset, tracking and type that the
\* form gives a slot with a size
RestDecoded(k) ==
    LET slot == driver_data.media_ready[k]
        f    == client.form
        b    == SlotKey(k - 1, "-borderless")
        o    == SlotKey(k - 1, "-top-offset")
        t    == SlotKey(k - 1, "-tracking")
        y    == SlotKey(k - 1, "-type")
    IN  /\ slot.source = driver_data.source[k]
        /\ slot.bottom_margin = (IF HasOption(b, f) THEN 0 ELSE driver_data.bottom_top)
        /\ slot.left_margin = (IF HasOption(b, f) THEN 0 ELSE driver_data.left_right)
        /\ HasOption(o, f) => (f[o] = "1.5" => slot.top_offset = 150)
        /\ ~HasOption(o, f) => slot.top_offset = 0
        /\ HasOption(t, f) => (f[t] = "web" => slot.tracking = 4)
        /\ ~HasOption(t, f) => slot.tracking = 0
        /\ slot.type = (IF HasOption(y, f) THEN f[y] ELSE "")
        /\ Unsized(slot) =
             Unsized(DecodeReady(ZeroMedia, driver_data,
                                 [f EXCEPT ![SlotKey(k - 1, "-size")] = "na_letter_8.5x11in"],
                                 k - 1))

\* C14: a slot whose ready<i>-size is "custom" while ready<i>-custom-width
\* or ready<i>-custom-length is missing has an empty size name and width =
\* length = 0; its source, margins, top offset, tracking and type are
\* decoded as for a slot with any other size.
IncompleteCustomUnsized ==
    Saved("/media") =>
      \A k \in SizedSources :
        (/\ client.form[SlotKey(k - 1, "-size")] = "custom"
         /\ \/ ~HasOption(SlotKey(k - 1, "-custom-width"), client.form)
            \/ ~HasOption(SlotKey(k - 1, "-custom-length"), client.form))
          => /\ driver_data.media_ready[k].size_name = ""
             /\ driver_data.media_ready[k].size_width = 0
             /\ driver_data.media_ready[k].size_length = 0
             /\ RestDecoded(k)

\* C14 witness: a custom size with a width and no length, and a type
IncompleteCustomUnsizedWitness ==
    /\ Saved("/media")
    /\ HasOption("ready0-size", client.form)
    /\ client.form["ready0-size"] = "custom"
    /\ HasOption("ready0-custom-width", client.form)
    /\ ~HasOption("ready0-custom-length", client.form)
    /\ HasOption("ready0-type", client.form)
    /\ driver_data.media_ready[1].size_name = ""
    /\ driver_data.media_ready[1].size_width = 0
    /\ driver_data.media_ready[1].source = "tray-1"
    /\ driver_data.media_ready[1].type = "labels"

\* the four margins of slot are bottom_top, bottom_top, left_right, left_right
MarginsAre(slot, bottom_top, left_right) ==
    /\ slot.bottom_margin = bottom_top /\ slot.top_margin = bottom_top
    /\ slot.left_margin = left_right /\ slot.right_margin = left_right

\* C15: after a ready-media decode the margins of every slot are all zero
\* or the fixed pairs of the descriptor; those of a slot whose size key is
\* present are all zero when ready<i>-borderless is in the form (whatever
\* its value) and the fixed pairs when it is not.
MarginsZeroOrFixed ==
    Saved("/media") =>
      /\ \A k \in DOMAIN driver_data.media_ready :
           \/ MarginsAre(driver_data.media_ready[k], 0, 0)
           \/ MarginsAre(driver_data.media_ready[k],
                         driver_data.bottom_top, driver_data.left_right)
      /\ \A k \in SizedSources :
           IF HasOption(SlotKey(k - 1, "-borderless"), client.form)
             THEN MarginsAre(driver_data.media_ready[k], 0, 0)
             ELSE MarginsAre(driver_data.media_ready[k],
                             driver_data.bottom_top, driver_data.left_right)

\* C15 witness: ready0-borderless with the empty value, and margins of zero
\* in a printer whose fixed margins are not zero
MarginsZeroOrFixedWitness ==
    /\ Saved("/media")
    /\ HasOption("ready0-size", client.form)
    /\ HasOption("ready0-borderless", client.form)
    /\ client.form["ready0-borderless"] = ""
    /\ MarginsAre(driver_data.media_ready[1], 0, 0)
    /\ driver_data.bottom_top > 0 /\ driver_data.left_right > 0

\* the values sscanf captures from a printer-resolution of the forms
Captured ==
    [ value \in {"300x600dpi", "1200dpi", "dpi"} |->
        IF value = "300x600dpi" THEN <<300, 600>>
        ELSE IF value = "1200dpi" THEN <<1200>>
        ELSE << >> ]

\* C16: printer-resolution "<X>x<Y>dpi": with both values captured the x
\* and y defaults become X and Y; with one value captured both become that
\* value; with none captured both keep their previous values.
ResolutionCaptured ==
    [][(Handles("/printing") /\ Decodable(client)
          /\ HasOption("printer-resolution", client.form))
         => LET got == Captured[client.form["printer-resolution"]]
            IN  /\ Len(got) = 2 => /\ driver_data'.x_default = got[1]
                                   /\ driver_data'.y_default = got[2]
                /\ Len(got) = 1 => /\ driver_data'.x_default = got[1]
                                   /\ driver_data'.y_default = got[1]
                /\ Len(got) = 0 => /\ driver_data'.x_default = driver_data.x_default
                                   /\ driver_data'.y_default = driver_data.y_default]_vars

\* C16 witness: "1200dpi" saved for the printer whose defaults were 300 and
\* 600: both are 1200
ResolutionCapturedWitness ==
    /\ Saved("/printing")
    /\ HasOption("printer-resolution", client.form)
    /\ client.form["printer-resolution"] = "1200dpi"
    /\ driver_data.num_source = 2
    /\ driver_data.x_default = 1200
    /\ driver_data.y_default = 1200

\* keyword from position i on as the generic fallback is described: a
\* hyphen becomes a space, the character after a hyphen is capitalized
RECURSIVE HyphensReplacedFrom(_, _)
HyphensReplacedFrom(keyword, i) ==
    IF i >= Len(keyword) THEN ""
    ELSE LET c == CharAt(keyword, i)
             d == IF c = "-" THEN " "
                  ELSE IF i = 0 \/ CharAt(keyword, i - 1) = "-" THEN toupper(c)
                  ELSE c
         IN  d \o HyphensReplacedFrom(keyword, i + 1)

\* label has no hyphen
NoHyphen(label) == \A i \in 0 .. Len(label) - 1 : CharAt(label, i) # "-"

\* C18: a keyword that reaches the generic fallback of localize_keyword is
\* labelled with its first character capitalized, each hyphen replaced by a
\* space and the character after each replaced hyphen capitalized; the
\* label has no hyphen.
FallbackReplacesEveryHyphen ==
    (/\ pc = "done"
     /\ OutsideEveryTable(call.attrname, call.keyword)
     /\ call.attrname # "media"
     /\ call.keyword # "")
      => /\ ~ret.fatal
         /\ ret.buffer = HyphensReplacedFrom(call.keyword, 0)
         /\ NoHyphen(ret.buffer)

\* C19 as stated: after a ready-media decode the source of the slot of
\* every declared source is the name of that source.
SourceAlwaysDeclared ==
    Saved("/media") =>
      \A k \in 1 .. driver_data.num_source :
        driver_data.media_ready[k].source = driver_data.source[k]

\* C19: after a ready-media decode the slots are in the order of the
\* declared sources; the source of a slot whose ready<i>-size is in the form
\* is the name of the declared source i, that of a slot whose ready<i>-size
\* is not in the form is empty, and the slots after the last declared
\* source are all zero: no source is taken from the form.
SourceDeclaredWhenSized ==
    Saved("/media") =>
      /\ \A k \in 1 .. driver_data.num_source :
           driver_data.media_ready[k].source =
             (IF k \in SizedSources THEN driver_data.source[k] ELSE "")
      /\ \A k \in DOMAIN driver_data.media_ready :
           k > driver_data.num_source => driver_data.media_ready[k] = ZeroMedia

\* C19 witness: two sources, ready0-size in the form and ready1-size not
SourceDeclaredWhenSizedWitness ==
    /\ Saved("/media")
    /\ driver_data.num_source = 2
    /\ HasOption("ready0-size", client.form)
    /\ ~HasOption("ready1-size", client.form)
    /\ driver_data.media_ready[1].source = "tray-1"
    /\ driver_data.media_ready[2].source = ""

\* entry is a sentinel of the size list
MinimumSentinel(size) == IsCustomOrRoll(size) /\ StrStr(size, "_min_")
MaximumSentinel(size) ==
    IsCustomOrRoll(size) /\ StrStr(size, "_max_") /\ ~StrStr(size, "_min_")
RealSize(size) == ~MinimumSentinel(size) /\ ~MaximumSentinel(size)

\* C20: the size chooser offers "custom" exactly when the size list has a
\* minimum and a maximum sentinel, offers no sentinel, and offers every
\* other entry of the list as an enumerated size.
ChooserOffersEveryRealSize ==
    pc = "done" =>
      /\ ~ret.fatal
      /\ ret.custom_option <=>
           /\ \E i \in DOMAIN call.sizes : MinimumSentinel(call.sizes[i])
           /\ \E i \in DOMAIN call.sizes : MaximumSentinel(call.sizes[i])
      /\ [i \in DOMAIN ret.options |-> ret.options[i].value]
           = SelectSeq(call.sizes, RealSize)

\* the declared sources (1-based) named value
SourcesNamed(value) ==
    { k \in 1 .. driver_data.num_source : driver_data.source[k] = value }

\* C17: a media-source that is the name of a declared source makes the
\* default media the ready-media slot of the first source of that name, as
\* the slot is when the form is decoded; any other media-source leaves the
\* default media unchanged; and a ready-media decode, whatever it does to
\* the slots, leaves the default media unchanged.
MediaDefaultCopied ==
    [][/\ (Handles("/printing") /\ Decodable(client)
             /\ HasOption("media-source", client.form))
            => LET named == SourcesNamed(client.form["media-source"])
               IN  IF named # {}
                     THEN \E k \in named :
                            /\ \A j \in named : k <= j
                            /\ driver_data'.media_default = driver_data.media_ready[k]
                     ELSE driver_data'.media_default = driver_data.media_default
       /\ Handles("/media") => driver_data'.media_default = driver_data.media_default]_vars

\* C17 witness: the default media is the labels that media-source = tray-2
\* copied from the second slot, and a ready-media decode has since reset
\* that slot
MediaDefaultCopiedWitness ==
    /\ Saved("/media")
    /\ driver_data.num_source = 2
    /\ driver_data.media_default = LabelMedia
    /\ driver_data.media_ready[2] = ZeroMedia

\* C21: the defaults decode changes no ready-media slot, neither in its
\* working copy nor in the printer, and the ready-media decode changes
\* nothing but the ready-media slots: no scalar default and not the default
\* media, for any form.
PassesIndependent ==
    [][/\ Handles("/printing") =>
            /\ WebDefaultsDecode(GetPrintDriverData(driver_data), client.form).media_ready
                 = driver_data.media_ready
            /\ driver_data'.media_ready = driver_data.media_ready
       /\ Handles("/media") =>
            LET data    == GetPrintDriverData(driver_data)
                decoded == WebMediaDecode(data, client.form)
            IN  /\ decoded = [data EXCEPT !.media_ready = decoded.media_ready]
                /\ \A e \in DefaultsFields :
                     driver_data'[e.field] = driver_data[e.field]]_vars

\* C21 witness: a ready-media decode has set the first slot and reset the
\* second, and the defaults are those of the printer with two sources
PassesIndependentWitness ==
    /\ Saved("/media")
    /\ driver_data.num_source = 2
    /\ driver_data.media_ready[1].size_name = "na_letter_8.5x11in"
    /\ driver_data.media_ready[1].type = "labels"
    /\ driver_data.media_ready[2] = ZeroMedia
    /\ driver_data.media_default = LetterMedia
    /\ driver_data.speed_default = 5080
    /\ driver_data.x_default = 300 /\ driver_data.y_default = 600

\* the options of the size select that are marked selected
SelectedOptions == { i \in DOMAIN ret.options : ret.options[i].selected }

\* C22: at most one option of the size select is marked selected, and when
\* an option has the size name of the slot, no other option is marked.
AtMostOneSelected ==
    (pc = "done" /\ ~ret.fatal) =>
      /\ Cardinality(SelectedOptions) <= 1
      /\ (\E i \in DOMAIN ret.options : ret.options[i].value = call.media.size_name)
           => \A i \in SelectedOptions : ret.options[i].value = call.media.size_name

\* input name is among the offset inputs written for source k
OffsetInputWritten(k, name) ==
    \E n \in DOMAIN html.offsets[k] : html.offsets[k][n] = name

\* C26: after a ready-media decode the left offset of every slot is zero,
\* also when the form has ready<i>-left-offset (an input the page offers
\* when the printer supports a left offset) and whatever the left offset
\* was before; ready<i>-top-offset is decoded.
LeftOffsetNeverDecoded ==
    Saved("/media") =>
      /\ \A k \in DOMAIN driver_data.media_ready :
           driver_data.media_ready[k].left_offset = 0
      /\ \A k \in DOMAIN html.offsets :
           /\ driver_data.left_offset_supported[2] # 0
                <=> OffsetInputWritten(k, SlotKey(k - 1, "-left-offset"))
           /\ driver_data.top_offset_supported[2] # 0
                <=> OffsetInputWritten(k, SlotKey(k - 1, "-top-offset"))
      /\ \A k \in SizedSources :
           (/\ HasOption(SlotKey(k - 1, "-top-offset"), client.form)
            /\ client.form[SlotKey(k - 1, "-top-offset")] = "1.5")
             => driver_data.media_ready[k].top_offset = 150

\* C26 witness: the form had a size, a left offset of 1.0 and a top offset
\* of 1.5 for the first source; the slot has the top offset and no left
\* offset, the page offers the left offset input, and the left offset the
\* second slot had is gone
LeftOffsetNeverDecodedWitness ==
    /\ Saved("/media")
    /\ driver_data.num_source = 2
    /\ HasOption("ready0-size", client.form)
    /\ HasOption("ready0-left-offset", client.form)
    /\ client.form["ready0-left-offset"] = "1.0"
    /\ HasOption("ready0-top-offset", client.form)
    /\ client.form["ready0-top-offset"] = "1.5"
    /\ driver_data.media_ready[1].left_offset = 0
    /\ driver_data.media_ready[1].top_offset = 150
    /\ driver_data.media_ready[2].left_offset = 0
    /\ OffsetInputWritten(1, "ready0-left-offset")

\* ---- the pages that change the printer (SpecPages) ----

\* the printer as the handlers can change it
PrinterState == <<driver_data, printer_config, jobs>>

\* C23: a request leaves the printer (configuration, print defaults, ready
\* media, jobs) as it was unless it is authorized, a POST, has a form that
\* is not empty and passes the validation; so does every GET.
NoChangeUnlessValidPost ==
    [][pc = "call" =>
         /\ ~Decodable(client) => PrinterState' = PrinterState
         /\ client.operation = "GET" => PrinterState' = PrinterState]_vars

\* C23 witness: an authorized GET of the cancel page with the id of a job:
\* the page asks to confirm and no job was cancelled
NoChangeUnlessValidPostWitness ==
    /\ pc = "done"
    /\ client.uri = "/cancel"
    /\ client.authorized
    /\ client.operation = "GET"
    /\ HasOption("job-id", client.form)
    /\ client.form["job-id"] = "1"
    /\ 1 \in jobs.ids
    /\ jobs.cancelled = {}
    /\ html.responses = << "form", "footer" >> \/ html.responses = << "200", "header", "form", "footer" >>

\* C24: a cancel page that answered with the redirect to the jobs page
\* sends nothing after it: no 200 header and no page.
OneResponsePerRequest ==
    (/\ pc = "done"
     /\ client.uri \in {"/cancelall", "/cancel"}
     /\ client.authorized
     /\ ~html.fatal)
      => \A n \in DOMAIN html.responses :
           html.responses[n] = "302" => Len(html.responses) = n

\* the job-id of the form is missing, zero or the id of no job
NoSuchJob ==
    \/ ~HasOption("job-id", client.form)
    \/ client.form["job-id"] \in {"abc", "0"}
    \/ (client.form["job-id"] = "1" /\ 1 \notin jobs.ids)
    \/ client.form["job-id"] = "7"

\* C25: on a valid POST to the cancel page whose job-id is missing, zero or
\* the id of no job, papplJobCancel is not called (not on NULL either) and
\* the page says "Invalid Job ID." without a redirect.
CancelOnlyFoundJob ==
    (/\ pc = "done"
     /\ client.uri = "/cancel"
     /\ Decodable(client)
     /\ NoSuchJob)
      => /\ jobs.cancelled = {}
         /\ ~html.fatal
         /\ html.status = "Invalid Job ID."
         /\ \A n \in DOMAIN html.responses : html.responses[n] # "302"

=============================================================================
